---- MODULE Spec2Model ----
(***************************************************************************)
(* Verification model of the Southern California campsite tracker:         *)
(* the alert rule processor (src/notifications/alert_rules.py), the email  *)
(* notification service (src/notifications/email_alerts.py) and the        *)
(* notification part of the data store client                              *)
(* (src/database/supabase_client.py).                                      *)
(*                                                                         *)
(* Conventions                                                             *)
(*   - a date is its proleptic Gregorian ordinal (date.toordinal()), so    *)
(*     date.weekday() is (ordinal + 6) % 7 with 0 = Monday;                *)
(*   - a point in time is a whole number of hours;                         *)
(*   - a price is a whole number of dollars, an absent Optional value is   *)
(*     the sentinel None;                                                  *)
(*   - the pydantic models are configured with use_enum_values, so every   *)
(*     enum-typed field of a model instance holds the plain string value.  *)
(***************************************************************************)
EXTENDS Integers, Sequences, FiniteSets, TLC

VARIABLES
    input,          \* arguments of a direct call of one operation (drawn in Init)
    output,         \* what the last call returned; NoOutput before any call
    delivery_stats, \* EmailNotificationService.delivery_stats
    n_calls,        \* calls made so far on the service instance
    utcnow,         \* datetime.utcnow(), in hours
    date_today,     \* date.today(), an ordinal
    mcp_backend,    \* what the SupabaseClient is wired to
    alert_rules,    \* table alert_rules of the store, ordered by created_at
    notification_records,     \* table notification_records of the store
    collaborators,  \* the db_client / email_service the processor was built with
    send_log,       \* every send_availability_alert call of the processor, in order
    pc,             \* where process_new_availability stands: idle, rules, flush
    availability,   \* argument of the running process_new_availability call
    active_rules,   \* the rules fetched by the running call
    rule_idx,       \* position of the rule loop in active_rules
    stats,          \* the summary the running call builds
    notification_batch,       \* AlertProcessor.notification_batch
    processed_notifications,  \* AlertProcessor.processed_notifications
    call_log,       \* arguments and start time of every processor call made
    rule_log,       \* every pass of the rule loop: call, rule, what raised
    clock,          \* time.time(), in whole seconds
    rate_limiter,   \* the fields of one RateLimiter
    callers,        \* the coroutines calling the limiter: where each stands
    worker,         \* the running CLI command: position and local variables
    events          \* what the scraper and the commands did, in order

fnVars == <<input, output>>

emailVars == <<delivery_stats, n_calls, utcnow>>

storeVars == <<mcp_backend, alert_rules, notification_records>>

procVars == <<date_today, collaborators, send_log, pc, availability, active_rules, rule_idx, stats,
              notification_batch, processed_notifications, call_log,
              rule_log>>

scrapeVars == <<clock, rate_limiter, callers, worker, events>>

vars == <<input, output, delivery_stats, n_calls, utcnow, date_today,
          mcp_backend,
          alert_rules, notification_records, collaborators, send_log, pc, availability,
          active_rules, rule_idx, stats, notification_batch,
          processed_notifications, call_log, rule_log, clock, rate_limiter,
          callers, worker, events>>

---------------------------------------------------------------------------
(* Enumerations and Optional values                                        *)

\* Optional[...] = None (models.py: price, max_price, sent_at, error_message)
None == -1

\* ParkEnum values
ParkEnum == {"joshua_tree", "carlsbad", "oceanside"}

\* SiteTypeEnum values
SiteTypeEnum == {"tent", "rv", "cabin", "group", "day_use"}

\* AvailabilityStatus values
AvailabilityStatus == {"available", "booked", "closed", "maintenance", "unknown"}

\* NotificationStatus values
NotificationStatus == {"pending", "sent", "failed", "skipped"}

\* Python truthiness of an Optional[float]: None and 0.0 are both falsy
Truthy(x) == x # None /\ x # 0

\* date.weekday(): Monday = 0 ... Sunday = 6
weekday(d) == (d + 6) % 7

\* output before the call returns; afterwards output = <<returned value>>
NoOutput == << >>

---------------------------------------------------------------------------
(* Sequence helpers                                                        *)

\* insertion of x into a list sorted by check_in_date, after every entry with
\* an equal or smaller date (list.sort is stable)
RECURSIVE InsertByDate(_, _)
InsertByDate(x, s) ==
    IF s = << >> THEN <<x>>
    ELSE IF Head(s).check_in_date <= x.check_in_date
         THEN <<Head(s)>> \o InsertByDate(x, Tail(s))
         ELSE <<x>> \o s

\* site_availability.sort(key=lambda x: x.check_in_date)
RECURSIVE SortByDate(_)
SortByDate(s) ==
    IF s = << >> THEN << >>
    ELSE InsertByDate(s[Len(s)], SortByDate(SubSeq(s, 1, Len(s) - 1)))

\* the sequences over S of length at most n
SeqUpTo(S, n) == UNION {[1..k -> S] : k \in 0..n}

---------------------------------------------------------------------------
(* AlertProcessor: rule predicate                                          *)

\* plausible slip: strict Saturday/Sunday predicate
is_weekend_date_strict(check_date) == weekday(check_date) >= 5

\* AlertProcessor.is_weekend_date: Friday (4), Saturday (5) or Sunday (6)
is_weekend_date(check_date) == weekday(check_date) >= 4

\* plausible slip: a gap restarts the run at the later date instead of
\* ending the check
RECURSIVE ScanNightsRestart(_, _, _, _, _)
ScanNightsRestart(sorted, i, consecutive_count, current_date, min_nights) ==
    IF i > Len(sorted) THEN consecutive_count >= min_nights
    ELSE IF sorted[i].check_in_date = current_date
         THEN IF consecutive_count + 1 >= min_nights THEN TRUE
              ELSE ScanNightsRestart(sorted, i + 1, consecutive_count + 1,
                                     current_date + 1, min_nights)
         ELSE IF sorted[i].check_in_date > current_date
              THEN ScanNightsRestart(sorted, i + 1, 1,
                                     sorted[i].check_in_date + 1, min_nights)
              ELSE ScanNightsRestart(sorted, i + 1, consecutive_count,
                                     current_date, min_nights)

\* the for loop of _check_consecutive_nights over the sorted entries
RECURSIVE ScanNights(_, _, _, _, _)
ScanNights(sorted, i, consecutive_count, current_date, min_nights) ==
    IF i > Len(sorted) THEN consecutive_count >= min_nights
    ELSE IF sorted[i].check_in_date = current_date
         THEN IF consecutive_count + 1 >= min_nights THEN TRUE
              ELSE ScanNights(sorted, i + 1, consecutive_count + 1,
                              current_date + 1, min_nights)
         ELSE IF sorted[i].check_in_date > current_date
              THEN consecutive_count >= min_nights
              ELSE ScanNights(sorted, i + 1, consecutive_count,
                              current_date, min_nights)

\* site_availability: the entries of all_availability from position i on that
\* are available and of the site's park and site id, in list order
RECURSIVE SiteAvailability(_, _, _)
SiteAvailability(site, all_availability, i) ==
    IF i > Len(all_availability) THEN << >>
    ELSE IF /\ all_availability[i].park = site.park
            /\ all_availability[i].site_id = site.site_id
            /\ all_availability[i].status = "available"
         THEN <<all_availability[i]>> \o SiteAvailability(site, all_availability, i + 1)
         ELSE SiteAvailability(site, all_availability, i + 1)

\* AlertProcessor._check_consecutive_nights
_check_consecutive_nights(site, all_availability, min_nights) ==
    ScanNights(SortByDate(SiteAvailability(site, all_availability, 1)),
               1, 0, site.check_in_date, min_nights)

\* AlertProcessor._matches_alert_rule: "true", "false", or "ValueError" when
\* SiteTypeEnum(st) meets a label that is no site type
_matches_alert_rule(rule, site, all_availability, today) ==
    IF site.park \notin rule.parks THEN "false"
    ELSE IF \E st \in rule.site_types : st \notin SiteTypeEnum THEN "ValueError"
    ELSE IF site.site_type \notin rule.site_types THEN "false"
    ELSE IF rule.weekend_only /\ ~is_weekend_date(site.check_in_date) THEN "false"
    ELSE IF Truthy(rule.max_price) /\ Truthy(site.price)
            /\ site.price > rule.max_price THEN "false"
    ELSE IF site.check_in_date - today < rule.advance_notice_days THEN "false"
    ELSE IF rule.min_nights > 1
            /\ ~_check_consecutive_nights(site, all_availability, rule.min_nights)
         THEN "false"
    ELSE "true"

---------------------------------------------------------------------------
(* EmailNotificationService                                                *)

\* Optional[str] = None (NotificationRecord.error_message)
NoMessage == "<None>"

\* EmailNotificationService.__init__: delivery_stats and the clock
EmailInit ==
    /\ delivery_stats = [sent |-> 0, failed |-> 0, retries |-> 0]
    /\ n_calls = 0
    /\ utcnow = 0

\* EmailNotificationService._create_notification_record with a site
_create_notification_record(alert_rule, site, status, error_message, at) ==
    [alert_rule_id |-> alert_rule.id,
     park |-> site.park,
     site_id |-> site.site_id,
     check_in_date |-> site.check_in_date,
     status |-> status,
     sent_at |-> IF status = "sent" THEN at ELSE None,
     error_message |-> error_message]

\* EmailNotificationService._create_notification_record without a site: the
\* placeholder record (site id "unknown", check-in date today)
DummyNotificationRecord(alert_rule, status, error_message, at, today) ==
    [alert_rule_id |-> alert_rule.id,
     park |-> CHOOSE p \in alert_rule.parks : TRUE,
     site_id |-> "unknown",
     check_in_date |-> today,
     status |-> status,
     sent_at |-> IF status = "sent" THEN at ELSE None,
     error_message |-> error_message]

\* plausible slip: a failed SMTP session is not counted
_send_email_uncounted(smtp_ok, dstats) ==
    IF smtp_ok
    THEN [success |-> TRUE, stats |-> [dstats EXCEPT !.sent = @ + 1]]
    ELSE [success |-> FALSE, stats |-> dstats]

\* EmailNotificationService._send_email.  smtp_ok: composing the message and
\* the SMTP session (connect, starttls, login, send_message, quit) raised
\* nothing.  Returns the success flag and the updated delivery_stats.
_send_email(smtp_ok, dstats) ==
    IF smtp_ok
    THEN [success |-> TRUE, stats |-> [dstats EXCEPT !.sent = @ + 1]]
    ELSE [success |-> FALSE, stats |-> [dstats EXCEPT !.failed = @ + 1]]

\* EmailNotificationService.send_availability_alert.  render_ok: the park
\* lookup, the template rendering and the subject line raised nothing.
\* Returns the notification record and the updated delivery_stats.
send_availability_alert(alert_rule, sites, render_ok, smtp_ok, dstats, at, today) ==
    IF sites = << >>
    THEN [record |-> DummyNotificationRecord(alert_rule, "skipped",
                         "No sites to notify about", at, today),
          stats |-> dstats]
    ELSE IF ~render_ok
    THEN [record |-> _create_notification_record(alert_rule, sites[1], "failed",
                         "str(e)", at),
          stats |-> dstats]
    ELSE LET sent == _send_email(smtp_ok, dstats)
         IN  [record |-> _create_notification_record(alert_rule, sites[1],
                             IF sent.success THEN "sent" ELSE "failed",
                             NoMessage, at),
              stats |-> sent.stats]

\* EmailNotificationService.send_daily_summary and send_error_notification:
\* render, then _send_email; an exception while rendering returns False
SendRendered(render_ok, smtp_ok, dstats) ==
    IF ~render_ok
    THEN [success |-> FALSE, stats |-> dstats]
    ELSE _send_email(smtp_ok, dstats)


---------------------------------------------------------------------------
(* SupabaseClient: notification records                                    *)

\* the backends a client can be wired to: the in-repository simulation of
\* _insert_rows_direct / _execute_query_direct, the hosted store executing the
\* SQL text, and a store whose tool call fails
Backends == {"simulated", "live", "failing"}

\* plausible slip: the count query without its status = 'sent' condition
CountQueryAnyStatus(table, park, site_id, check_in_date, cutoff_time) ==
    Cardinality({i \in 1..Len(table) :
        /\ table[i].park = park
        /\ table[i].site_id = site_id
        /\ table[i].check_in_date = check_in_date
        /\ table[i].created_at >= cutoff_time})

\* SELECT COUNT(*) FROM notification_records WHERE park = ... AND site_id = ...
\* AND check_in_date = ... AND status = 'sent' AND created_at >= cutoff_time
CountQuery(table, park, site_id, check_in_date, cutoff_time) ==
    Cardinality({i \in 1..Len(table) :
        /\ table[i].park = park
        /\ table[i].site_id = site_id
        /\ table[i].check_in_date = check_in_date
        /\ table[i].status = "sent"
        /\ table[i].created_at >= cutoff_time})

\* SupabaseClient._execute_query for the count query of check_notification_sent:
\* raised = _call_mcp_tool raised SupabaseError; data = the rows of the reply
ExecuteCountQuery(backend, table, park, site_id, check_in_date, cutoff_time) ==
    CASE backend = "simulated" ->
            [raised |-> FALSE, success |-> TRUE, data |-> << >>]
      [] backend = "live" ->
            [raised |-> FALSE, success |-> TRUE,
             data |-> <<[count |-> CountQuery(table, park, site_id,
                                              check_in_date, cutoff_time)]>>]
      [] OTHER ->
            [raised |-> TRUE, success |-> FALSE, data |-> << >>]

\* SupabaseClient.check_notification_sent.  park_is_enum: the caller passed a
\* ParkEnum member; a plain string has no .value and the AttributeError is
\* answered False like every other exception.
check_notification_sent(backend, table, now, park_is_enum, park, site_id, check_in_date, hours_back) ==
    IF ~park_is_enum THEN FALSE
    ELSE LET cutoff_time == now - hours_back
             result == ExecuteCountQuery(backend, table, park, site_id,
                                         check_in_date, cutoff_time)
         IN  IF result.raised THEN FALSE
             ELSE IF result.success
                  THEN IF Len(result.data) = 0 THEN FALSE
                       ELSE result.data[1].count > 0
                  ELSE FALSE

---------------------------------------------------------------------------
(* SupabaseClient: writes and rule reads                                   *)

\* class Config: use_enum_values = True.  The enum-typed fields of a model
\* instance (park, status, site_type) hold plain strings, which have no
\* .value attribute.
FieldHasValueAttr == FALSE

\* an untouched store, wired to the simulation
StoreInit ==
    /\ mcp_backend = "simulated"
    /\ alert_rules = << >>
    /\ notification_records = << >>

\* SupabaseClient.record_notification: notification.park.value is evaluated
\* inside the try, every exception is answered False; otherwise one row is
\* inserted with created_at = utcnow.  Returns the flag and the table.
record_notification(wired_to, table, notification, at) ==
    IF ~FieldHasValueAttr THEN [ok |-> FALSE, table |-> table]
    ELSE CASE wired_to = "simulated" -> [ok |-> TRUE, table |-> table]
           [] wired_to = "live" ->
                [ok |-> TRUE,
                 table |-> Append(table,
                    [park |-> notification.park,
                     site_id |-> notification.site_id,
                     check_in_date |-> notification.check_in_date,
                     status |-> notification.status,
                     created_at |-> at])]
           [] OTHER -> [ok |-> FALSE, table |-> table]

\* AlertRule(...) accepts the row (ValidationError and ValueError rows are
\* skipped)
ValidRuleRow(row) ==
    /\ row.parks # {} /\ row.parks \subseteq ParkEnum
    /\ row.site_types # {} /\ row.site_types \subseteq SiteTypeEnum
    /\ row.min_nights \in 1..14
    /\ row.max_price = None \/ row.max_price >= 0
    /\ row.advance_notice_days \in 1..180

\* the rows of the rule table from position i on that are active and valid
RECURSIVE ActiveRules(_, _)
ActiveRules(table, i) ==
    IF i > Len(table) THEN << >>
    ELSE IF table[i].is_active /\ ValidRuleRow(table[i])
         THEN <<table[i]>> \o ActiveRules(table, i + 1)
         ELSE ActiveRules(table, i + 1)

\* SupabaseClient.get_active_alert_rules: the simulation answers no rows, a
\* failing tool call is answered with the empty list
get_active_alert_rules(wired_to, table) ==
    IF wired_to = "live" THEN ActiveRules(table, 1) ELSE << >>

---------------------------------------------------------------------------
(* AlertProcessor                                                          *)

\* settings.alert_cooldown_hours (default)
alert_cooldown_hours == 24

\* max_sites_per_email in send_alert_notification
max_sites_per_email == 10

\* f"{site.park}_{site.site_id}_{site.check_in_date}"
SiteKey(site) == <<site.park, site.site_id, site.check_in_date>>

\* no call is running
NoStats == [notifications_sent |-> 0, rules_processed |-> 0, errors |-> << >>]

\* what one send_availability_alert call runs into: nothing, an exception
\* while rendering, an exception in the SMTP session
SendOutcomes == {"ok", "render_error", "smtp_error"}

\* AlertProcessor.__init__ and an idle processor
ProcessorInit ==
    /\ date_today = 6
    /\ collaborators = "own"
    /\ send_log = << >>
    /\ pc = "idle"
    /\ availability = << >>
    /\ active_rules = << >>
    /\ rule_idx = 0
    /\ stats = NoStats
    /\ notification_batch = << >>
    /\ processed_notifications = {}
    /\ call_log = << >>
    /\ rule_log = << >>

\* RateLimiter.__init__ at time now.  self.tokens is kept in sixtieths of a
\* token, so that one second refills requests_per_minute sixtieths and the
\* arithmetic stays whole; burst_size None stands for the default.
FreshLimiter(requests_per_minute, burst_size, backoff_multiplier, max_backoff_seconds, now) ==
    LET burst == IF Truthy(burst_size) THEN burst_size ELSE requests_per_minute
    IN  [requests_per_minute |-> requests_per_minute,
         burst_size |-> burst,
         backoff_multiplier |-> backoff_multiplier,
         max_backoff_seconds |-> max_backoff_seconds,
         tokens |-> burst * 60,
         last_update |-> now,
         consecutive_errors |-> 0,
         last_error_time |-> None,
         locked_by |-> None]

\* no scraper, limiter caller or command is running
ScraperInit ==
    /\ clock = 0
    /\ rate_limiter = FreshLimiter(2, None, 2, 300, 0)
    /\ callers = << >>
    /\ worker = [pc |-> "idle"]
    /\ events = << >>

\* AlertProcessor.find_matching_availability from position i on: the matches
\* in list order, or raised when the rule predicate raises.  site.park is a
\* model field, so check_notification_sent is handed a plain string.
RECURSIVE find_matching_availability(_, _, _, _, _, _, _)
find_matching_availability(alert_rule, avail, i, wired_to, table, at, day) ==
    IF i > Len(avail) THEN [raised |-> FALSE, matches |-> << >>]
    ELSE LET site == avail[i]
             rest == find_matching_availability(alert_rule, avail, i + 1,
                                                wired_to, table, at, day)
         IN  IF site.status # "available" THEN rest
             ELSE IF check_notification_sent(wired_to, table, at,
                         FieldHasValueAttr, site.park, site.site_id,
                         site.check_in_date, alert_cooldown_hours)
                  THEN rest
             ELSE LET m == _matches_alert_rule(alert_rule, site, avail, day)
                  IN  IF m = "ValueError" \/ rest.raised
                      THEN [raised |-> TRUE, matches |-> << >>]
                      ELSE IF m = "true"
                           THEN [raised |-> FALSE,
                                 matches |-> <<site>> \o rest.matches]
                           ELSE rest

\* the keys of sites_by_park in insertion order: the parks of matching_sites
\* from position i on that are not in seen
RECURSIVE ParksInOrder(_, _, _)
ParksInOrder(matching_sites, i, seen) ==
    IF i > Len(matching_sites) THEN << >>
    ELSE IF matching_sites[i].park \in seen
         THEN ParksInOrder(matching_sites, i + 1, seen)
         ELSE <<matching_sites[i].park>>
              \o ParksInOrder(matching_sites, i + 1,
                              seen \cup {matching_sites[i].park})

\* sites_by_park[park]
RECURSIVE SitesOfPark(_, _, _)
SitesOfPark(matching_sites, park, i) ==
    IF i > Len(matching_sites) THEN << >>
    ELSE IF matching_sites[i].park = park
         THEN <<matching_sites[i]>> \o SitesOfPark(matching_sites, park, i + 1)
         ELSE SitesOfPark(matching_sites, park, i + 1)

\* plausible slip: the last, shorter chunk is dropped
ChunksOfFullOnly(sites) ==
    [k \in 1..(Len(sites) \div max_sites_per_email) |->
        SubSeq(sites, (k - 1) * max_sites_per_email + 1, k * max_sites_per_email)]

\* [sites[i:i + max_sites_per_email] for i in range(0, len(sites), max_sites_per_email)]
ChunksOf(sites) ==
    LET starts == {i \in 0..(Len(sites) - 1) : i % max_sites_per_email = 0}
    IN  [k \in 1..Cardinality(starts) |->
            SubSeq(sites, (k - 1) * max_sites_per_email + 1,
                   IF k * max_sites_per_email < Len(sites)
                   THEN k * max_sites_per_email ELSE Len(sites))]

\* the chunks of every park, in the order the two nested loops visit them
RECURSIVE SiteChunks(_, _, _)
SiteChunks(matching_sites, parks, p) ==
    IF p > Len(parks) THEN << >>
    ELSE ChunksOf(SitesOfPark(matching_sites, parks[p], 1))
         \o SiteChunks(matching_sites, parks, p + 1)

AllSiteChunks(matching_sites) ==
    SiteChunks(matching_sites, ParksInOrder(matching_sites, 1, {}), 1)

\* the body of the chunk loop of send_alert_notification from chunk k on.
\* acc: notification_batch, processed_notifications, delivery_stats, send_log
\* and the local notifications_sent
RECURSIVE SendChunks(_, _, _, _, _, _, _, _)
SendChunks(alert_rule, chunks, outcomes, k, acc, at, day, call) ==
    IF k > Len(chunks) THEN acc
    ELSE LET chunk == chunks[k]
             r == send_availability_alert(alert_rule, chunk,
                                          outcomes[k] # "render_error",
                                          outcomes[k] = "ok",
                                          acc.delivery_stats, at, day)
             sent == r.record.status = "sent"
             next ==
                [notification_batch |-> Append(acc.notification_batch, r.record),
                 processed_notifications |->
                    IF sent
                    THEN acc.processed_notifications
                         \cup {SiteKey(chunk[j]) : j \in 1..Len(chunk)}
                    ELSE acc.processed_notifications,
                 delivery_stats |-> r.stats,
                 send_log |-> Append(acc.send_log,
                    [call |-> call, rule |-> alert_rule.id,
                     sites |-> [j \in 1..Len(chunk) |-> SiteKey(chunk[j])],
                     outcome |-> outcomes[k], at |-> at]),
                 notifications_sent |->
                    IF sent THEN acc.notifications_sent + 1
                    ELSE acc.notifications_sent]
         IN  SendChunks(alert_rule, chunks, outcomes, k + 1, next, at, day, call)

\* AlertProcessor.send_alert_notification.  outcomes[k]: what the k-th
\* send_availability_alert call runs into.  Returns the processor and service
\* state after the loops; the bool result is notifications_sent > 0.
send_alert_notification(alert_rule, matching_sites, outcomes, acc, at, day, call) ==
    SendChunks(alert_rule, AllSiteChunks(matching_sites), outcomes, 1,
               [acc EXCEPT !.notifications_sent = 0], at, day, call)

\* the loop of _store_notification_batch from record k on: the table after
\* every record_notification call
RECURSIVE StoreBatch(_, _, _, _, _)
StoreBatch(wired_to, table, batch, k, at) ==
    IF k > Len(batch) THEN table
    ELSE StoreBatch(wired_to,
                    record_notification(wired_to, table, batch[k], at).table,
                    batch, k + 1, at)

---------------------------------------------------------------------------
(* Direct calls of the rule predicate (inputs drawn in Init)               *)

\* how far ahead of today the check-in dates of the drawn sites lie
MaxDaysAhead == 10

\* date.today() of the drawn calls: a Wednesday and a Saturday
Todays == {3, 6}

MatchRules ==
    [id : {"r1"},
     parks : {{"carlsbad"}, {"carlsbad", "oceanside"}},
     site_types : {{"rv"}, {"tent", "rv"}, {"rv", "yurt"}},
     weekend_only : BOOLEAN,
     min_nights : {1, 2},
     max_price : {None, 0, 100},
     advance_notice_days : {1, 7}]

MatchSites(today) ==
    [park : {"carlsbad", "joshua_tree"},
     site_id : {"S1"},
     site_type : {"rv", "tent"},
     check_in_date : today..(today + MaxDaysAhead),
     status : {"available"},
     price : {None, 0, 60, 150}]

InitMatch ==
    /\ \E today \in Todays, rule \in MatchRules :
         \E site \in MatchSites(today), withNext \in BOOLEAN :
            input = [op |-> "_matches_alert_rule", today |-> today, rule |-> rule,
                     site |-> site,
                     all_availability |->
                        IF withNext
                        THEN <<[site EXCEPT !.check_in_date = @ + 1], site>>
                        ELSE <<site>>]
    /\ output = NoOutput
    /\ EmailInit
    /\ StoreInit
    /\ ProcessorInit
    /\ ScraperInit

\* await self._matches_alert_rule(alert_rule, site, availability)
MatchesAlertRule ==
    /\ input.op = "_matches_alert_rule"
    /\ output = NoOutput
    /\ output' = <<_matches_alert_rule(input.rule, input.site,
                                      input.all_availability, input.today)>>
    /\ UNCHANGED <<input, emailVars, storeVars, procVars, scrapeVars>>

NextMatch == MatchesAlertRule

SpecMatch == InitMatch /\ [][NextMatch]_vars

\* the conditions of the rule predicate as the specification words them
ParkOk(rule, site) == site.park \in rule.parks
TypeOk(rule, site) == rule.site_types \subseteq SiteTypeEnum /\ site.site_type \in rule.site_types
PriceOk(rule, site) == rule.max_price = None \/ site.price = None \/ site.price <= rule.max_price
AdvanceOk(rule, site, today) == site.check_in_date - today >= rule.advance_notice_days

MatchCalled == input.op = "_matches_alert_rule" /\ output # NoOutput

\* C4: a weekend-only rule (min_nights = 1) whose park, site type, price and
\* advance-notice conditions are satisfied by a site matches it if and only if
\* the check-in weekday is Friday, Saturday or Sunday.
C4_WeekendOnlyMatch ==
    (/\ MatchCalled
     /\ input.rule.weekend_only /\ input.rule.min_nights = 1
     /\ ParkOk(input.rule, input.site) /\ TypeOk(input.rule, input.site)
     /\ PriceOk(input.rule, input.site)
     /\ AdvanceOk(input.rule, input.site, input.today))
    => (output[1] = "true" <=> weekday(input.site.check_in_date) \in {4, 5, 6})

\* C4 witness: the rule {carlsbad, rv, weekend_only, max_price 100, advance 7}
\* has matched an RV site priced 60 with a Saturday check-in 10 days out.
C4_Witness ==
    /\ MatchCalled /\ output[1] = "true"
    /\ input.rule.weekend_only /\ input.rule.min_nights = 1
    /\ input.rule.parks = {"carlsbad"} /\ input.rule.site_types = {"rv"}
    /\ input.rule.max_price = 100 /\ input.rule.advance_notice_days = 7
    /\ input.site.park = "carlsbad" /\ input.site.site_type = "rv"
    /\ input.site.price = 60
    /\ input.site.check_in_date = input.today + 10
    /\ weekday(input.site.check_in_date) = 5

\* C5: when the rule has a max price (0 included) and the site has a price
\* (0 included), the rule matches only if site price <= max price.
C5_PriceCondition ==
    (/\ MatchCalled /\ output[1] = "true"
     /\ input.rule.max_price # None /\ input.site.price # None)
    => input.site.price <= input.rule.max_price

---------------------------------------------------------------------------
(* Direct calls of the consecutive-night check (inputs drawn in Init)     *)

\* longest candidate list drawn
MaxAvail == 3

\* largest min_nights drawn
MaxNights == 3

\* the four calendar days the drawn entries lie on
NightDays == 10..13

FirstDay == CHOOSE d \in NightDays : \A e \in NightDays : d <= e

NightEntry(park, site_id, status, d) ==
    [park |-> park, site_id |-> site_id, site_type |-> "rv",
     check_in_date |-> d, status |-> status, price |-> 60]

NightEntries ==
    UNION {{NightEntry("carlsbad", "S1", "available", d),
            NightEntry("carlsbad", "S1", "booked", d),
            NightEntry("carlsbad", "S2", "available", d),
            NightEntry("oceanside", "S1", "available", d)} : d \in NightDays}

InitNights ==
    /\ \E all_availability \in SeqUpTo(NightEntries, MaxAvail) :
         \E i \in 1..Len(all_availability), min_nights \in 2..MaxNights :
            input = [op |-> "_check_consecutive_nights",
                     site |-> all_availability[i],
                     all_availability |-> all_availability,
                     min_nights |-> min_nights]
    /\ output = NoOutput
    /\ EmailInit
    /\ StoreInit
    /\ ProcessorInit
    /\ ScraperInit

\* self._check_consecutive_nights(site, all_availability, rule.min_nights)
CheckConsecutiveNights ==
    /\ input.op = "_check_consecutive_nights"
    /\ output = NoOutput
    /\ output' = <<_check_consecutive_nights(input.site, input.all_availability,
                                            input.min_nights)>>
    /\ UNCHANGED <<input, emailVars, storeVars, procVars, scrapeVars>>

NextNights == CheckConsecutiveNights

SpecNights == InitNights /\ [][NextNights]_vars

\* the list holds an available entry of the site for day d
AvailableOn(all_availability, site, d) ==
    \E j \in 1..Len(all_availability) :
        /\ all_availability[j].park = site.park
        /\ all_availability[j].site_id = site.site_id
        /\ all_availability[j].status = "available"
        /\ all_availability[j].check_in_date = d

NightsCalled == input.op = "_check_consecutive_nights" /\ output # NoOutput

\* C6: for min_nights = k > 1 the consecutive-night check succeeds if and only
\* if the candidate list holds an available entry for the same (park, site id)
\* on each of the k consecutive days starting at the candidate's check-in date.
C6_ConsecutiveNights ==
    NightsCalled =>
        (output[1] <=> \A n \in 0..(input.min_nights - 1) :
                        AvailableOn(input.all_availability, input.site,
                                    input.site.check_in_date + n))

\* C6 witness: entries on three consecutive days and min_nights = 3; the check
\* from day 2 has failed for want of an entry on day 4.
C6_Witness ==
    /\ NightsCalled /\ output[1] = FALSE
    /\ input.min_nights = 3
    /\ input.site.status = "available"
    /\ input.site.check_in_date = FirstDay + 1
    /\ \A d \in FirstDay..(FirstDay + 2) :
          AvailableOn(input.all_availability, input.site, d)
    /\ ~AvailableOn(input.all_availability, input.site, FirstDay + 3)

---------------------------------------------------------------------------
(* Direct calls of check_notification_sent (inputs drawn in Init)          *)

\* most rows of the notification table drawn
MaxRows == 2

\* the (park, site id, check-in date) asked about, and three keys that differ
\* from it in one component each
QueriedKey == [park |-> "carlsbad", site_id |-> "S1", check_in_date |-> 20]

StoreKeys ==
    {QueriedKey,
     [QueriedKey EXCEPT !.park = "oceanside"],
     [QueriedKey EXCEPT !.site_id = "S2"],
     [QueriedKey EXCEPT !.check_in_date = 21]}

\* datetime.utcnow() of the drawn calls, in hours
StoreNows == {100}

\* age in hours of the drawn rows
StoreAges == {1, 24, 25}

StoreRows(now) ==
    {[park |-> k.park, site_id |-> k.site_id, check_in_date |-> k.check_in_date,
      status |-> st, created_at |-> now - age] :
        k \in StoreKeys, st \in {"sent", "failed", "skipped"}, age \in StoreAges}

InitStore ==
    /\ \E now \in StoreNows, backend \in Backends, park_is_enum \in BOOLEAN :
         \E table \in SeqUpTo(StoreRows(now), MaxRows), hours_back \in {24, 48} :
            input = [op |-> "check_notification_sent", now |-> now,
                     backend |-> backend, table |-> table,
                     park_is_enum |-> park_is_enum,
                     park |-> QueriedKey.park, site_id |-> QueriedKey.site_id,
                     check_in_date |-> QueriedKey.check_in_date,
                     hours_back |-> hours_back]
    /\ output = NoOutput
    /\ EmailInit
    /\ StoreInit
    /\ ProcessorInit
    /\ ScraperInit

\* await self.db_client.check_notification_sent(park, site_id, check_in_date, hours_back)
CheckNotificationSent ==
    /\ input.op = "check_notification_sent"
    /\ output = NoOutput
    /\ output' = <<check_notification_sent(input.backend, input.table, input.now,
                       input.park_is_enum, input.park, input.site_id,
                       input.check_in_date, input.hours_back)>>
    /\ UNCHANGED <<input, emailVars, storeVars, procVars, scrapeVars>>

NextStore == CheckNotificationSent

SpecStore == InitStore /\ [][NextStore]_vars

StoreCalled == input.op = "check_notification_sent" /\ output # NoOutput

\* row i is a sent record for exactly the asked key, created within the
\* trailing hours_back window
SentWithinWindow(i) ==
    /\ input.table[i].park = input.park
    /\ input.table[i].site_id = input.site_id
    /\ input.table[i].check_in_date = input.check_in_date
    /\ input.table[i].status = "sent"
    /\ input.table[i].created_at >= input.now - input.hours_back
    /\ input.table[i].created_at <= input.now

\* C3: check_notification_sent returns true only when the store holds a sent
\* record for exactly that (park, site id, check-in date) created within the
\* trailing hours_back window; a sent record 25 hours old is not enough with
\* hours_back = 24, and failed or skipped records never are.
C3_CheckNotificationSent ==
    (StoreCalled /\ output[1] = TRUE)
        => \E i \in 1..Len(input.table) : SentWithinWindow(i)

\* C3 witness: the hosted store holds a sent record of the asked key created
\* 25 hours ago, the window is 24 hours, and the check has answered false.
C3_Witness ==
    /\ StoreCalled /\ output[1] = FALSE
    /\ input.backend = "live" /\ input.park_is_enum
    /\ input.hours_back = 24
    /\ \E i \in 1..Len(input.table) :
          /\ input.table[i].park = input.park
          /\ input.table[i].site_id = input.site_id
          /\ input.table[i].check_in_date = input.check_in_date
          /\ input.table[i].status = "sent"
          /\ input.table[i].created_at = input.now - 25

---------------------------------------------------------------------------
(* Calls of the email service                                              *)

\* calls made on one service instance
MaxSends == 3

EmailRule ==
    [id |-> "r1", parks |-> {"carlsbad"}, site_types |-> {"rv"},
     weekend_only |-> TRUE, min_nights |-> 1, max_price |-> 100,
     advance_notice_days |-> 7]

EmailSite(site_id) ==
    [park |-> "carlsbad", site_id |-> site_id, site_type |-> "rv",
     check_in_date |-> 20, status |-> "available", price |-> 60]

\* the site lists handed to send_availability_alert
EmailSiteLists == {<< >>, <<EmailSite("S1")>>, <<EmailSite("S2"), EmailSite("S1")>>}

InitEmail ==
    /\ input = [op |-> "email"]
    /\ output = NoOutput
    /\ EmailInit
    /\ StoreInit
    /\ ProcessorInit
    /\ ScraperInit

\* await email_service.send_daily_summary(recipient_email, summary_data)
SendDailySummary ==
    /\ input.op = "email" /\ n_calls < MaxSends
    /\ \E render_ok \in BOOLEAN, smtp_ok \in BOOLEAN :
         LET r == SendRendered(render_ok, smtp_ok, delivery_stats)
         IN  /\ output' = <<[op |-> "send_daily_summary", raised |-> FALSE,
                             success |-> r.success]>>
             /\ delivery_stats' = r.stats
    /\ n_calls' = n_calls + 1
    /\ UNCHANGED <<input, utcnow, storeVars, procVars, scrapeVars>>

\* await email_service.send_error_notification(recipient_email, component, ...)
SendErrorNotification ==
    /\ input.op = "email" /\ n_calls < MaxSends
    /\ \E render_ok \in BOOLEAN, smtp_ok \in BOOLEAN :
         LET r == SendRendered(render_ok, smtp_ok, delivery_stats)
         IN  /\ output' = <<[op |-> "send_error_notification", raised |-> FALSE,
                             success |-> r.success]>>
             /\ delivery_stats' = r.stats
    /\ n_calls' = n_calls + 1
    /\ UNCHANGED <<input, utcnow, storeVars, procVars, scrapeVars>>

\* await email_service.send_availability_alert(alert_rule, sites)
SendAvailabilityAlert ==
    /\ input.op = "email" /\ n_calls < MaxSends
    /\ \E sites \in EmailSiteLists, render_ok \in BOOLEAN, smtp_ok \in BOOLEAN :
         LET r == send_availability_alert(EmailRule, sites, render_ok, smtp_ok,
                                          delivery_stats, utcnow, date_today)
         IN  /\ output' = <<[op |-> "send_availability_alert", raised |-> FALSE,
                             success |-> r.record.status = "sent",
                             sites |-> sites, smtp_ok |-> smtp_ok,
                             record |-> r.record]>>
             /\ delivery_stats' = r.stats
    /\ n_calls' = n_calls + 1
    /\ UNCHANGED <<input, utcnow, storeVars, procVars, scrapeVars>>

\* time passes between calls
EmailTick ==
    /\ input.op = "email" /\ n_calls < MaxSends
    /\ utcnow < MaxSends
    /\ utcnow' = utcnow + 1
    /\ UNCHANGED <<input, output, delivery_stats, n_calls, storeVars, procVars, scrapeVars>>

NextEmail ==
    \/ SendDailySummary
    \/ SendErrorNotification
    \/ SendAvailabilityAlert
    \/ EmailTick

SpecEmail == InitEmail /\ [][NextEmail]_vars

\* the call just made ended in failure: a False result, or a failed record
SendFailed(out) ==
    IF out.op = "send_availability_alert" THEN out.record.status = "failed"
    ELSE ~out.success

\* C9: no send path raises, and every send that ends in failure (a failure
\* before the SMTP session included) returns a failure-flagged result and
\* increments delivery_stats['failed'] by exactly one.
C9_FailureCounted ==
    [][(n_calls' = n_calls + 1 /\ input.op = "email")
          => /\ ~output'[1].raised
             /\ SendFailed(output'[1])
                   => delivery_stats'.failed = delivery_stats.failed + 1]_vars

\* C10: with a non-empty site list, a successful SMTP send gives a sent record
\* with a sent timestamp, and every failed send gives a failed record with a
\* non-empty error text and no sent timestamp.
C10_AlertRecord ==
    (/\ input.op = "email" /\ output # NoOutput
     /\ output[1].op = "send_availability_alert"
     /\ output[1].sites # << >>)
    => IF output[1].record.status = "sent"
       THEN output[1].record.sent_at # None
       ELSE /\ output[1].record.status = "failed"
            /\ output[1].record.error_message \notin {NoMessage, ""}
            /\ output[1].record.sent_at = None

---------------------------------------------------------------------------
(* Calls of process_new_availability                                       *)

\* process_new_availability calls made on one processor
MaxCalls == 2

\* hours that pass in one step of the clock, and the steps taken
TickHours == 12

MaxTicks == 3

\* the per-rule handler (except Exception in the rule loop): the message is
\* appended to stats['errors'] and the loop goes on with the next rule.
\* Returns the summary and the position the loop continues at.
RuleRaisedAborts(st, rule, idx, n) ==
    [stats |-> [st EXCEPT !.errors = Append(@, rule.id)], next |-> n + 1]

RuleRaised(st, rule, idx, n) ==
    [stats |-> [st EXCEPT !.errors = Append(@, rule.id)], next |-> idx + 1]

\* the rule of the end-to-end scenario, a second rule overlapping it, and a
\* row that is not active
AlertRule1 ==
    [id |-> "r1", is_active |-> TRUE, parks |-> {"carlsbad"},
     site_types |-> {"rv"}, weekend_only |-> TRUE, min_nights |-> 1,
     max_price |-> 100, advance_notice_days |-> 7]

AlertRule2 ==
    [id |-> "r2", is_active |-> TRUE, parks |-> {"carlsbad", "oceanside"},
     site_types |-> {"rv", "tent"}, weekend_only |-> FALSE, min_nights |-> 1,
     max_price |-> None, advance_notice_days |-> 1]

AlertRule3 == [AlertRule2 EXCEPT !.id = "r3", !.is_active = FALSE]

RuleTables == {<<AlertRule1>>, <<AlertRule1, AlertRule2>>,
               <<AlertRule3, AlertRule2, AlertRule1>>}

\* a Carlsbad RV record priced 60 with check-in 14 days out
AlertSite(site_id, status, day) ==
    [park |-> "carlsbad", site_id |-> site_id, site_type |-> "rv",
     check_in_date |-> day + 14, status |-> status, price |-> 60]

\* the availability lists handed to process_new_availability
AlertAvailability(day) ==
    {<< >>,
     <<AlertSite("S1", "available", day)>>,
     <<AlertSite("S1", "available", day), AlertSite("S2", "available", day)>>,
     <<AlertSite("S3", "booked", day), AlertSite("S2", "available", day)>>}

\* a processor built with the collaborators of one of kinds over a store
\* holding some rule rows, on a Saturday; calls: the calls to be made
ProcessInit(calls, kinds) ==
    /\ input = [op |-> "process_new_availability", calls |-> calls]
    /\ output = NoOutput
    /\ EmailInit
    /\ mcp_backend \in Backends
    /\ alert_rules \in RuleTables
    /\ notification_records = << >>
    /\ collaborators \in kinds
    /\ date_today = 6
    /\ send_log = << >>
    /\ pc = "idle"
    /\ availability = << >>
    /\ active_rules = << >>
    /\ rule_idx = 0
    /\ stats = NoStats
    /\ notification_batch = << >>
    /\ processed_notifications = {}
    /\ call_log = << >>
    /\ rule_log = << >>
    /\ ScraperInit

\* the repository's own client and service, several calls
InitAlert == ProcessInit(MaxCalls, {"own"})

\* process_new_availability(avail) up to the rule loop: the two early
\* returns, the rule fetch and the weekend count
BeginProcessing(avail) ==
    /\ call_log' = Append(call_log, [availability |-> avail, at |-> utcnow])
    /\ IF avail = << >>
       THEN /\ output' = <<NoStats>>
            /\ UNCHANGED <<pc, availability, active_rules, rule_idx, stats>>
       ELSE LET rules == get_active_alert_rules(mcp_backend, alert_rules)
                st == [notifications_sent |-> 0,
                       rules_processed |-> Len(rules),
                       errors |-> << >>,
                       availability_processed |-> Len(avail),
                       weekend_sites_found |-> Cardinality(
                          {i \in 1..Len(avail) :
                             /\ is_weekend_date(avail[i].check_in_date)
                             /\ avail[i].status = "available"}),
                       rules_matched |-> 0]
            IN  IF rules = << >>
                THEN /\ output' = <<st>>
                     /\ UNCHANGED <<pc, availability, active_rules,
                                    rule_idx, stats>>
                ELSE /\ output' = NoOutput
                     /\ pc' = "rules"
                     /\ availability' = avail
                     /\ active_rules' = rules
                     /\ rule_idx' = 1
                     /\ stats' = st

\* a call of process_new_availability with one of the availability lists
ProcessStart ==
    /\ input.op = "process_new_availability"
    /\ pc = "idle" /\ Len(call_log) < input.calls
    /\ \E avail \in AlertAvailability(date_today) : BeginProcessing(avail)
    /\ UNCHANGED <<input, emailVars, storeVars, date_today, collaborators,
                   send_log, notification_batch, processed_notifications,
                   rule_log, scrapeVars>>

\* what an injected db_client or email_service may do in one pass of the rule
\* loop: nothing, raise in check_notification_sent, raise in
\* send_availability_alert.  The repository's own client and service catch
\* every exception themselves.
Faults == IF collaborators = "injected" THEN {"none", "matching", "sending"}
          ELSE {"none"}

\* one pass of the rule loop
ProcessRule ==
    /\ pc = "rules"
    /\ LET rule == active_rules[rule_idx]
           n == Len(active_rules)
           call == Len(call_log)
           found == find_matching_availability(rule, availability, 1,
                        mcp_backend, notification_records, utcnow, date_today)
           checked == \E i \in 1..Len(availability) :
                         availability[i].status = "available"
       IN  \E fault \in Faults :
             IF found.raised \/ (fault = "matching" /\ checked)
             THEN LET h == RuleRaised(stats, rule, rule_idx, n)
                  IN  /\ stats' = h.stats
                      /\ rule_idx' = h.next
                      /\ pc' = IF h.next > n THEN "flush" ELSE "rules"
                      /\ rule_log' = Append(rule_log,
                            [call |-> call, rule |-> rule.id, raised |-> "matching"])
                      /\ UNCHANGED <<delivery_stats, n_calls, send_log,
                                     notification_batch, processed_notifications>>
             ELSE /\ rule_idx' = rule_idx + 1
                  /\ pc' = IF rule_idx + 1 > n THEN "flush" ELSE "rules"
                  /\ IF found.matches = << >>
                     THEN /\ rule_log' = Append(rule_log,
                               [call |-> call, rule |-> rule.id, raised |-> "none"])
                          /\ UNCHANGED <<stats, delivery_stats, n_calls, send_log,
                                         notification_batch, processed_notifications>>
                     ELSE IF fault = "sending"
                     THEN /\ stats' = [stats EXCEPT !.rules_matched = @ + 1]
                          /\ rule_log' = Append(rule_log,
                               [call |-> call, rule |-> rule.id, raised |-> "sending"])
                          /\ n_calls' = n_calls + 1
                          /\ UNCHANGED <<delivery_stats, send_log,
                                         notification_batch, processed_notifications>>
                     ELSE \E outcomes \in [1..Len(AllSiteChunks(found.matches))
                                             -> SendOutcomes] :
                            LET r == send_alert_notification(rule, found.matches,
                                        outcomes,
                                        [notification_batch |-> notification_batch,
                                         processed_notifications |-> processed_notifications,
                                         delivery_stats |-> delivery_stats,
                                         send_log |-> send_log,
                                         notifications_sent |-> 0],
                                        utcnow, date_today, call)
                            IN  /\ stats' = [stats EXCEPT
                                      !.rules_matched = @ + 1,
                                      !.notifications_sent =
                                          IF r.notifications_sent > 0 THEN @ + 1 ELSE @]
                                /\ notification_batch' = r.notification_batch
                                /\ processed_notifications' = r.processed_notifications
                                /\ delivery_stats' = r.delivery_stats
                                /\ send_log' = r.send_log
                                /\ n_calls' = n_calls + Len(outcomes)
                                /\ rule_log' = Append(rule_log,
                                      [call |-> call, rule |-> rule.id, raised |-> "none"])
    /\ UNCHANGED <<input, output, utcnow, storeVars, date_today, collaborators,
                   availability, active_rules, call_log, scrapeVars>>

\* plausible slip: the loop over the batch is left after its first record
RecordCallsFirstOnly(batch, call) ==
    IF batch = << >> THEN << >> ELSE <<[call |-> call, record |-> batch[1]]>>

\* the record_notification calls of _store_notification_batch in call number
\* call of process_new_availability: one for each record of the batch, in
\* the order of the batch
RecordCalls(batch, call) ==
    [k \in 1..Len(batch) |-> [call |-> call, record |-> batch[k]]]

\* the end of process_new_availability: _store_notification_batch when the
\* batch is not empty, then the summary is returned
Flush ==
    /\ pc = "flush"
    /\ events' = events \o RecordCalls(notification_batch, Len(call_log))
    /\ notification_records' =
          IF notification_batch # << >>
          THEN StoreBatch(mcp_backend, notification_records, notification_batch,
                          1, utcnow)
          ELSE notification_records
    /\ notification_batch' = << >>
    /\ output' = <<stats>>
    /\ pc' = "idle"
    /\ UNCHANGED <<input, emailVars, mcp_backend, alert_rules, date_today,
                   collaborators, send_log, availability, active_rules, rule_idx,
                   stats, processed_notifications, call_log, rule_log,
                   clock, rate_limiter, callers, worker>>

\* time passes between two calls
Tick ==
    /\ input.op = "process_new_availability"
    /\ pc = "idle"
    /\ Len(call_log) \in 1..(input.calls - 1)
    /\ utcnow < MaxTicks * TickHours
    /\ utcnow' = utcnow + TickHours
    /\ UNCHANGED <<input, output, delivery_stats, n_calls, storeVars, procVars, scrapeVars>>

NextAlert ==
    \/ ProcessStart
    \/ ProcessRule
    \/ Flush
    \/ Tick

SpecAlert == InitAlert /\ [][NextAlert]_vars

\* one call on a processor built with its own or with injected collaborators
InitIsolation == ProcessInit(1, {"own", "injected"})

NextIsolation ==
    \/ ProcessStart
    \/ ProcessRule
    \/ Flush

SpecIsolation == InitIsolation /\ [][NextIsolation]_vars

\* the positions of send_log at which call c got an email delivered
DeliveredIn(c) ==
    {i \in 1..Len(send_log) : send_log[i].call = c /\ send_log[i].outcome = "ok"}

\* the site keys listed in the i-th logged email
SitesListed(i) == {send_log[i].sites[m] : m \in 1..Len(send_log[i].sites)}

\* the first call of the end-to-end scenario is over: the repository's own
\* client on a store holding the one rule, one matching record, no send fails
C1_Scenario ==
    /\ collaborators = "own" /\ mcp_backend = "live"
    /\ alert_rules = <<AlertRule1>>
    /\ pc = "idle" /\ Len(call_log) >= 1
    /\ call_log[1].availability = <<AlertSite("S1", "available", date_today)>>
    /\ \A i \in 1..Len(send_log) : send_log[i].outcome = "ok"

\* C1: in the end-to-end scenario the first process_new_availability call
\* delivers exactly one email and persists exactly one notification record
\* with status sent, and a second call over the same availability within the
\* cooldown window delivers no further email.
C1_EndToEnd ==
    C1_Scenario
    => /\ Cardinality(DeliveredIn(1)) = 1
       /\ Cardinality({i \in 1..Len(notification_records) :
             /\ notification_records[i].status = "sent"
             /\ notification_records[i].created_at = call_log[1].at}) = 1
       /\ (/\ Len(call_log) = 2
           /\ call_log[2].availability = call_log[1].availability
           /\ call_log[2].at - call_log[1].at < alert_cooldown_hours)
          => DeliveredIn(2) = {}

\* C2: once a call that delivered an email listing a site has finished (its
\* records flushed), no later call within the cooldown window delivers an
\* email listing the same (park, site id, check-in date), whatever position
\* the site had in its chunk.
C2_CooldownCoversEverySite ==
    (collaborators = "own" /\ pc = "idle")
    => \A i, j \in 1..Len(send_log) :
          (/\ send_log[i].outcome = "ok" /\ send_log[j].outcome = "ok"
           /\ send_log[i].call < send_log[j].call
           /\ send_log[j].at - send_log[i].at < alert_cooldown_hours)
          => SitesListed(i) \cap SitesListed(j) = {}

\* the rules call c passed through the rule loop, from position i of rule_log
\* on, restricted to the passes in which one of kinds raised
RECURSIVE LoggedRules(_, _, _)
LoggedRules(c, kinds, i) ==
    IF i > Len(rule_log) THEN << >>
    ELSE IF rule_log[i].call = c /\ rule_log[i].raised \in kinds
         THEN <<rule_log[i].rule>> \o LoggedRules(c, kinds, i + 1)
         ELSE LoggedRules(c, kinds, i + 1)

\* the ids of the rules the store hands out
ActiveIds ==
    LET rules == get_active_alert_rules(mcp_backend, alert_rules)
    IN  [k \in 1..Len(rules) |-> rules[k].id]

\* the last call went past its early return and has returned its summary
CallReturned ==
    /\ pc = "idle" /\ output # NoOutput /\ Len(call_log) >= 1
    /\ call_log[Len(call_log)].availability # << >>

\* C8 as stated: whenever matching or sending raises for a rule, every active
\* rule is still evaluated in the call and the summary's error list holds one
\* message for each failing rule.
C8_AsStated ==
    CallReturned
    => /\ LoggedRules(Len(call_log), {"none", "matching", "sending"}, 1) = ActiveIds
       /\ output[1].errors = LoggedRules(Len(call_log), {"matching", "sending"}, 1)

\* C8 (amended): whenever matching raises for a rule, every active rule is
\* still evaluated in the call and the summary's error list holds exactly one
\* message for each such rule; an exception raised while sending is absorbed
\* by send_alert_notification, leaves no message in the error list and does
\* not stop the remaining rules either.
C8_FailureIsolation ==
    CallReturned
    => /\ LoggedRules(Len(call_log), {"none", "matching", "sending"}, 1) = ActiveIds
       /\ output[1].errors = LoggedRules(Len(call_log), {"matching"}, 1)

\* matching raised for the first of two rules, the second was still evaluated
C8_Witness ==
    /\ CallReturned
    /\ alert_rules = <<AlertRule1, AlertRule2>>
    /\ Len(call_log) = 1
    /\ rule_log = <<[call |-> 1, rule |-> "r1", raised |-> "matching"],
                    [call |-> 1, rule |-> "r2", raised |-> "none"]>>
    /\ output[1].errors = <<"r1">>
    /\ output[1].notifications_sent = 1

---------------------------------------------------------------------------
(* Direct calls of send_alert_notification (inputs drawn in Init)          *)

\* most matching sites of one park handed over
MaxMatches == 23

\* n matching Carlsbad sites, followed by one Oceanside site when extra
ChunkSites(n, extra) ==
    [i \in 1..(IF extra THEN n + 1 ELSE n) |->
        [park |-> IF i > n THEN "oceanside" ELSE "carlsbad",
         site_id |-> ToString(i), site_type |-> "rv",
         check_in_date |-> 20, status |-> "available", price |-> 60]]

InitChunk ==
    /\ \E n \in 1..MaxMatches, extra \in BOOLEAN :
          input = [op |-> "send_alert_notification", alert_rule |-> AlertRule2,
                   single_park |-> ~extra,
                   matching_sites |-> ChunkSites(n, extra)]
    /\ output = NoOutput
    /\ EmailInit
    /\ StoreInit
    /\ ProcessorInit
    /\ ScraperInit

\* await processor.send_alert_notification(alert_rule, matching_sites)
SendAlertNotification ==
    /\ input.op = "send_alert_notification" /\ output = NoOutput
    /\ \E outcomes \in [1..Len(AllSiteChunks(input.matching_sites)) -> SendOutcomes] :
         LET r == send_alert_notification(input.alert_rule, input.matching_sites,
                     outcomes,
                     [notification_batch |-> notification_batch,
                      processed_notifications |-> processed_notifications,
                      delivery_stats |-> delivery_stats,
                      send_log |-> send_log,
                      notifications_sent |-> 0],
                     utcnow, date_today, 1)
         IN  /\ output' = <<r.notifications_sent > 0>>
             /\ notification_batch' = r.notification_batch
             /\ processed_notifications' = r.processed_notifications
             /\ delivery_stats' = r.delivery_stats
             /\ send_log' = r.send_log
             /\ n_calls' = n_calls + Len(outcomes)
    /\ UNCHANGED <<input, utcnow, storeVars, date_today, collaborators, pc,
                   availability, active_rules, rule_idx, stats, call_log,
                   rule_log, scrapeVars>>

NextChunk == SendAlertNotification

SpecChunk == InitChunk /\ [][NextChunk]_vars

\* C7: for n matching sites of a single park send_alert_notification makes
\* exactly ceil(n/10) send attempts, each covering at most 10 sites, together
\* covering every matching site exactly once, and appends exactly one
\* notification record per attempt to the pending batch.
C7_Chunking ==
    (/\ input.op = "send_alert_notification" /\ output # NoOutput
     /\ input.single_park)
    => LET n == Len(input.matching_sites)
           k == Len(send_log)
       IN  /\ (k - 1) * 10 < n /\ n <= k * 10
           /\ \A i \in 1..k : Len(send_log[i].sites) \in 1..10
           /\ \A j \in 1..n :
                 Cardinality({p \in (1..k) \X (1..10) :
                    /\ p[2] <= Len(send_log[p[1]].sites)
                    /\ send_log[p[1]].sites[p[2]] = SiteKey(input.matching_sites[j])}) = 1
           /\ \A i \in 1..k : SitesListed(i) \subseteq
                 {SiteKey(input.matching_sites[j]) : j \in 1..n}
           /\ Len(notification_batch) = k

\* 23 sites of one park: three attempts of 10, 10 and 3 sites, three records
C7_Witness ==
    /\ input.op = "send_alert_notification" /\ output # NoOutput
    /\ input.single_park /\ Len(input.matching_sites) = 23
    /\ [i \in 1..Len(send_log) |-> Len(send_log[i].sites)] = <<10, 10, 3>>
    /\ Len(notification_batch) = 3

---------------------------------------------------------------------------
(* SupabaseClient: the write and read operations, as seen by the caller    *)

\* _call_mcp_tool("insert_rows", ...): the simulation and the hosted store
\* report success, a failing tool call raises SupabaseError
InsertRows(wired_to) ==
    IF wired_to = "failing" THEN [raised |-> TRUE, success |-> FALSE]
    ELSE [raised |-> FALSE, success |-> TRUE]

\* _call_mcp_tool("execute_query", ...) for a query whose rows are data
ExecuteQuery(wired_to, data) ==
    CASE wired_to = "simulated" -> [raised |-> FALSE, success |-> TRUE, data |-> << >>]
      [] wired_to = "live" -> [raised |-> FALSE, success |-> TRUE, data |-> data]
      [] OTHER -> [raised |-> TRUE, success |-> FALSE, data |-> << >>]

\* SupabaseClient.store_availability_data for a list of n records: the empty
\* list returns True at once; avail.park.value and the insert are inside the
\* try, and every exception is re-raised as SupabaseError
store_availability_data(wired_to, n) ==
    IF n = 0 THEN [raised |-> FALSE, value |-> TRUE]
    ELSE IF ~FieldHasValueAttr THEN [raised |-> TRUE, value |-> FALSE]
    ELSE LET result == InsertRows(wired_to)
         IN  IF result.raised \/ ~result.success
             THEN [raised |-> TRUE, value |-> FALSE]
             ELSE [raised |-> FALSE, value |-> TRUE]

\* SupabaseClient.create_alert_rule: park.value for the rule's parks and the
\* insert are inside the try, every exception is re-raised as SupabaseError
create_alert_rule(wired_to, alert_rule) ==
    IF alert_rule.parks # {} /\ ~FieldHasValueAttr
    THEN [raised |-> TRUE, value |-> FALSE]
    ELSE LET result == InsertRows(wired_to)
         IN  IF result.raised \/ ~result.success
             THEN [raised |-> TRUE, value |-> FALSE]
             ELSE [raised |-> FALSE, value |-> TRUE]

\* SupabaseClient.store_scrape_result: every exception is answered False
store_scrape_result(wired_to) ==
    IF ~FieldHasValueAttr THEN [raised |-> FALSE, value |-> FALSE]
    ELSE LET result == InsertRows(wired_to)
         IN  [raised |-> FALSE, value |-> ~result.raised /\ result.success]

\* SupabaseClient.health_check
health_check(wired_to) ==
    LET result == ExecuteQuery(wired_to, << >>)
    IN  IF result.raised THEN FALSE ELSE result.success

\* the rows of table from position i on whose park is park
RECURSIVE RowsOfPark(_, _, _)
RowsOfPark(table, park, i) ==
    IF i > Len(table) THEN << >>
    ELSE IF table[i].park = park
         THEN <<table[i]>> \o RowsOfPark(table, park, i + 1)
         ELSE RowsOfPark(table, park, i + 1)

\* SupabaseClient.get_availability_by_park without date and status filters:
\* a plain-string park has no .value; every exception is answered []
get_availability_by_park(wired_to, table, park_is_enum, park) ==
    IF ~park_is_enum THEN << >>
    ELSE LET result == ExecuteQuery(wired_to, RowsOfPark(table, park, 1))
         IN  IF result.raised \/ ~result.success THEN << >> ELSE result.data

---------------------------------------------------------------------------
(* Direct calls of the store operations (inputs drawn in Init)             *)

\* most records handed to store_availability_data
MaxBatch == 3

WriteOps == {"store_availability_data", "create_alert_rule",
             "record_notification", "store_scrape_result"}

ReadOps == {"get_availability_by_park", "get_active_alert_rules",
            "check_notification_sent", "health_check"}

\* the stored rows a read can meet
PolicyTables == {<< >>, <<[park |-> "carlsbad", site_id |-> "S1", check_in_date |-> 20,
                          status |-> "sent", created_at |-> 0]>>}

InitPolicy ==
    /\ \E op \in WriteOps \cup ReadOps, wired_to \in Backends, n \in 0..MaxBatch :
       \E park_is_enum \in BOOLEAN, table \in PolicyTables :
          input = [op |-> op, backend |-> wired_to, n |-> n,
                   park_is_enum |-> park_is_enum, table |-> table]
    /\ output = NoOutput
    /\ EmailInit
    /\ StoreInit
    /\ ProcessorInit
    /\ ScraperInit

\* the operation input.op called on a client wired to input.backend
StoreOperation ==
    /\ input.op \in WriteOps \cup ReadOps /\ output = NoOutput
    /\ output' = <<
         CASE input.op = "store_availability_data" ->
                 store_availability_data(input.backend, input.n)
           [] input.op = "create_alert_rule" ->
                 create_alert_rule(input.backend, AlertRule1)
           [] input.op = "record_notification" ->
                 [raised |-> FALSE,
                  value |-> record_notification(input.backend, input.table,
                               _create_notification_record(AlertRule1,
                                   AlertSite("S1", "available", date_today),
                                   "sent", NoMessage, utcnow), utcnow).ok]
           [] input.op = "store_scrape_result" ->
                 store_scrape_result(input.backend)
           [] input.op = "get_availability_by_park" ->
                 [raised |-> FALSE,
                  value |-> get_availability_by_park(input.backend, input.table,
                               input.park_is_enum, "carlsbad")]
           [] input.op = "get_active_alert_rules" ->
                 [raised |-> FALSE,
                  value |-> get_active_alert_rules(input.backend,
                               <<AlertRule1, AlertRule3>>)]
           [] input.op = "check_notification_sent" ->
                 [raised |-> FALSE,
                  value |-> check_notification_sent(input.backend, input.table,
                               utcnow, input.park_is_enum, "carlsbad", "S1", 20,
                               alert_cooldown_hours)]
           [] OTHER ->
                 [raised |-> FALSE, value |-> health_check(input.backend)] >>
    /\ UNCHANGED <<input, emailVars, storeVars, procVars, scrapeVars>>

NextPolicy == StoreOperation

SpecPolicy == InitPolicy /\ [][NextPolicy]_vars

\* C11: when the underlying insert fails every write operation raises a
\* storage error to its caller, and when the underlying query fails every
\* read operation returns an empty list or false and never raises.
C11_FailurePolicy ==
    (/\ input.op \in WriteOps \cup ReadOps /\ output # NoOutput
     /\ input.backend = "failing")
    => IF input.op \in WriteOps
       THEN (input.op = "store_availability_data" => input.n > 0)
            => output[1].raised
       ELSE /\ ~output[1].raised
            /\ IF input.op \in {"get_availability_by_park", "get_active_alert_rules"}
               THEN output[1].value = << >>
               ELSE output[1].value = FALSE

---------------------------------------------------------------------------
(* RateLimiter                                                             *)

Min(a, b) == IF a <= b THEN a ELSE b

\* base ** exponent for a whole exponent >= 0
RECURSIVE Power(_, _)
Power(base, exponent) ==
    IF exponent = 0 THEN 1 ELSE base * Power(base, exponent - 1)

\* plausible slip: requests_per_minute taken as the rate per second
UpdateTokensPerSecond(rl, now) ==
    [rl EXCEPT !.tokens = Min(rl.burst_size * 60,
                              rl.tokens + (now - rl.last_update) * rl.requests_per_minute * 60),
               !.last_update = now]

\* plausible slip: the refill is not capped at burst_size
UpdateTokensUncapped(rl, now) ==
    [rl EXCEPT !.tokens = rl.tokens + (now - rl.last_update) * rl.requests_per_minute,
               !.last_update = now]

\* RateLimiter._update_tokens at time now (tokens in sixtieths)
_update_tokens(rl, now) ==
    [rl EXCEPT !.tokens = Min(rl.burst_size * 60,
                              rl.tokens + (now - rl.last_update) * rl.requests_per_minute),
               !.last_update = now]

\* plausible slip: the exponent is the error count itself
BackoffTimeFromCount(rl) ==
    Min(Power(rl.backoff_multiplier, rl.consecutive_errors), rl.max_backoff_seconds)

\* min(backoff_multiplier ** (consecutive_errors - 1), max_backoff_seconds),
\* evaluated with consecutive_errors >= 1
BackoffTime(rl) ==
    Min(Power(rl.backoff_multiplier, rl.consecutive_errors - 1), rl.max_backoff_seconds)

\* RateLimiter.handle_error up to its sleep: the fields after the bookkeeping
\* and the seconds the call then sleeps
handle_error(rl, now) ==
    LET counted == [rl EXCEPT !.consecutive_errors = @ + 1, !.last_error_time = now]
    IN  [rl |-> counted, backoff_time |-> BackoffTime(counted)]

\* RateLimiter.handle_success
handle_success(rl) ==
    IF rl.consecutive_errors > 0
    THEN [rl EXCEPT !.consecutive_errors = 0, !.last_error_time = None]
    ELSE rl

\* RateLimiter.is_backing_off at time now
is_backing_off(rl, now) ==
    IF rl.last_error_time = None THEN FALSE
    ELSE now - rl.last_error_time < BackoffTime(rl)

\* RateLimiter._wait_for_tokens when nobody else touches the limiter: every
\* sleep is at most one second and the clock is read in whole seconds, so each
\* round of the loop finds the clock one second further.  Returns the fields
\* and the time at which the loop breaks.
RECURSIVE _wait_for_tokens(_, _, _)
_wait_for_tokens(rl, tokens, now) ==
    LET updated == _update_tokens(rl, now)
    IN  IF updated.tokens >= tokens * 60
        THEN [rl |-> updated, now |-> now]
        ELSE _wait_for_tokens(updated, tokens, now + 1)

\* RateLimiter.acquire(tokens) with tokens <= burst_size, uncontended
acquire(rl, tokens, now) ==
    LET waited == _wait_for_tokens(rl, tokens, now)
    IN  [rl |-> [waited.rl EXCEPT !.tokens = @ - tokens * 60], now |-> waited.now]

---------------------------------------------------------------------------
(* Crawl4AIClient                                                          *)

\* status_mapping.get(raw_status, "unknown") in _extract_availability_data,
\* for a raw status that is already lower case
ExtractedStatus(raw_status) ==
    CASE raw_status \in {"available", "open"} -> "available"
      [] raw_status \in {"booked", "reserved", "unavailable"} -> "booked"
      [] raw_status = "closed" -> "closed"
      [] raw_status = "maintenance" -> "maintenance"
      [] OTHER -> "unknown"

\* the loop of _extract_availability_data over campsites_data from position
\* i on, without a site type filter: entries without a check-in date are
\* skipped
RECURSIVE ExtractSites(_, _, _)
ExtractSites(campsites_data, park, i) ==
    IF i > Len(campsites_data) THEN << >>
    ELSE LET site_data == campsites_data[i]
             rest == ExtractSites(campsites_data, park, i + 1)
         IN  IF site_data.check_in_date = None THEN rest
             ELSE <<[park |-> park, site_id |-> site_data.site_id,
                     site_type |-> "tent",
                     check_in_date |-> site_data.check_in_date,
                     status |-> ExtractedStatus(site_data.status),
                     price |-> site_data.price,
                     max_occupancy |-> site_data.max_occupancy]>> \o rest

\* Crawl4AIClient._extract_availability_data: every exception of the
\* extraction request is answered with the empty list
_extract_availability_data(extract_ok, campsites_data, park) ==
    IF ~extract_ok THEN << >> ELSE ExtractSites(campsites_data, park, 1)

\* plausible slip: the token is acquired after the page has been crawled
ScrapeStepsCrawlFirst(crawl_ok) ==
    IF crawl_ok THEN <<"crawl_website", "acquire", "extract_structured_data">>
    ELSE <<"crawl_website">>

\* what one scrape_park_availability call does with the limiter and the
\* crawling service, in order: rate_limiter.acquire() for one token, the
\* crawl_website request and, when that raised nothing, the
\* extract_structured_data request of _extract_availability_data
ScrapeSteps(crawl_ok) ==
    IF crawl_ok THEN <<"acquire", "crawl_website", "extract_structured_data">>
    ELSE <<"acquire", "crawl_website">>

\* Crawl4AIClient.scrape_park_availability at time now.  crawl_ok: the
\* crawl_website tool call raised nothing; extract_ok: the
\* extract_structured_data tool call raised nothing.  Returns whether MCPError
\* was raised, the list returned, which limiter method was called, the limiter
\* fields and the time at the end of the call.
scrape_park_availability(rl, now, park, crawl_ok, extract_ok, campsites_data) ==
    LET acquired == acquire(rl, 1, now)
    IN  IF ~crawl_ok
        THEN LET failed == handle_error(acquired.rl, acquired.now)
             IN  [raised |-> TRUE, value |-> << >>, handled |-> "handle_error",
                  rl |-> failed.rl, now |-> acquired.now + failed.backoff_time,
                  steps |-> ScrapeSteps(crawl_ok),
              taken |-> _update_tokens(rl, acquired.now).tokens - acquired.rl.tokens]
        ELSE [raised |-> FALSE,
              value |-> _extract_availability_data(extract_ok, campsites_data, park),
              handled |-> "handle_success",
              rl |-> handle_success(acquired.rl), now |-> acquired.now,
              steps |-> ScrapeSteps(crawl_ok),
              taken |-> _update_tokens(rl, acquired.now).tokens - acquired.rl.tokens]

\* the additional filters of scrape_multiple_parks over availability from
\* position i on
RECURSIVE FilterAvailability(_, _, _)
FilterAvailability(query, avail, i) ==
    IF i > Len(avail) THEN << >>
    ELSE LET rest == FilterAvailability(query, avail, i + 1)
         IN  IF Truthy(query.max_price) /\ Truthy(avail[i].price)
                /\ avail[i].price > query.max_price THEN rest
             ELSE IF query.weekend_only /\ weekday(avail[i].check_in_date) < 5 THEN rest
             ELSE IF Truthy(query.min_occupancy) /\ Truthy(avail[i].max_occupancy)
                     /\ avail[i].max_occupancy < query.min_occupancy THEN rest
             ELSE <<avail[i]>> \o rest

\* results[park] = value
SetResult(results, park, value) ==
    [p \in DOMAIN results \cup {park} |-> IF p = park THEN value ELSE results[p]]

\* the per-park handler of scrape_multiple_parks (except Exception in the
\* park loop): the park maps to [] and the loop goes on with the next park.
\* Returns the mapping and the position the loop continues at.
ParkFailedAborts(results, park, idx, n) ==
    [results |-> SetResult(results, park, << >>), next |-> n + 1]

ParkFailed(results, park, idx, n) ==
    [results |-> SetResult(results, park, << >>), next |-> idx + 1]

---------------------------------------------------------------------------
(* Calls of scrape_multiple_parks (the query drawn in Init)                *)

\* most parks in one query
MaxParks == 3

\* what the extraction tool can hand back for one park
CampsitesData ==
    {<< >>,
     <<[site_id |-> "S1", check_in_date |-> 20, status |-> "open",
        price |-> 60, max_occupancy |-> 4]>>,
     <<[site_id |-> "S1", check_in_date |-> 20, status |-> "open",
        price |-> 60, max_occupancy |-> 4],
       [site_id |-> "S2", check_in_date |-> 17, status |-> "reserved",
        price |-> 120, max_occupancy |-> 2],
       [site_id |-> "S3", check_in_date |-> None, status |-> "sold out",
        price |-> None, max_occupancy |-> None]>>}

InitScrape ==
    /\ \E parks \in SeqUpTo(ParkEnum, MaxParks) \ {<< >>} :
       \E site_types_given \in BOOLEAN, weekend_only \in BOOLEAN, max_price \in {None, 100} :
          input = [op |-> "scrape_multiple_parks",
                   query |-> [parks |-> parks, site_types_given |-> site_types_given,
                              weekend_only |-> weekend_only, max_price |-> max_price,
                              min_occupancy |-> 3]]
    /\ output = NoOutput
    /\ EmailInit
    /\ StoreInit
    /\ ProcessorInit
    /\ clock = 0
    /\ rate_limiter = FreshLimiter(2, None, 2, 300, 0)
    /\ callers = << >>
    /\ worker = [pc |-> "scrape_multiple_parks", idx |-> 1, results |-> << >>]
    /\ events = << >>

\* one pass of the park loop of scrape_multiple_parks; the last pass returns
\* the mapping.  [st.value for st in query.site_types] is evaluated inside the
\* try, before scrape_park_availability is called.
ScrapeNextPark ==
    /\ worker.pc = "scrape_multiple_parks"
    /\ LET query == input.query
           n == Len(query.parks)
           park == query.parks[worker.idx]
       IN  \E crawl_ok \in BOOLEAN, extract_ok \in BOOLEAN, data \in CampsitesData :
             LET not_called == query.site_types_given /\ ~FieldHasValueAttr
                 r == scrape_park_availability(rate_limiter, clock, park, crawl_ok,
                                               extract_ok, data)
                 after == IF not_called \/ r.raised
                          THEN ParkFailed(worker.results, park, worker.idx, n)
                          ELSE [results |-> SetResult(worker.results, park,
                                               FilterAvailability(query, r.value, 1)),
                                next |-> worker.idx + 1]
             IN  \* outcomes that are never looked at are drawn once
                 /\ (not_called \/ ~crawl_ok) => (extract_ok /\ data = << >>)
                 /\ ~extract_ok => data = << >>
                 /\ events' = Append(events,
                       IF not_called
                       THEN [op |-> "not_called", park |-> park, at |-> clock]
                       ELSE [op |-> "scrape_park_availability", park |-> park,
                             at |-> clock, crawl_ok |-> crawl_ok,
                             extract_ok |-> extract_ok, raised |-> r.raised,
                             returned |-> r.value, handled |-> r.handled,
                             errors_before |-> rate_limiter.consecutive_errors,
                             errors_after |-> r.rl.consecutive_errors])
                 /\ rate_limiter' = IF not_called THEN rate_limiter ELSE r.rl
                 /\ clock' = IF not_called THEN clock ELSE r.now
                 /\ IF after.next > n
                    THEN /\ output' = <<after.results>>
                         /\ worker' = [pc |-> "idle"]
                    ELSE /\ output' = output
                         /\ worker' = [worker EXCEPT !.idx = after.next,
                                                     !.results = after.results]
    /\ UNCHANGED <<input, emailVars, storeVars, procVars, callers>>

NextScrape == ScrapeNextPark

SpecScrape == InitScrape /\ [][NextScrape]_vars

\* the passes of the park loop that called scrape_park_availability
ScrapeCalls == {k \in 1..Len(events) : events[k].op = "scrape_park_availability"}

\* C12: scrape_park_availability resets the consecutive-error counter
\* (handle_success) only when both the crawl request and the extraction
\* request succeeded; if either fails, handle_error is invoked, the counter
\* is incremented and the call raises instead of returning a result.
C12_ScrapeOutcome ==
    input.op = "scrape_multiple_parks"
    => \A k \in ScrapeCalls :
          /\ events[k].handled = "handle_success"
                => (events[k].crawl_ok /\ events[k].extract_ok)
          /\ ~(events[k].crawl_ok /\ events[k].extract_ok)
                => /\ events[k].handled = "handle_error"
                   /\ events[k].errors_after = events[k].errors_before + 1
                   /\ events[k].raised

\* the passes of the park loop that failed
FailedPasses == {k \in 1..Len(events) :
                    events[k].op = "not_called" \/ events[k].raised}

\* C13: scrape_multiple_parks handles the parks of the query one after
\* another in query order and returns a mapping with an entry for every
\* requested park; a park whose scrape fails maps to the empty list, and a
\* failure does not keep any later park of the query from being scraped.
C13_MultiplePark ==
    (input.op = "scrape_multiple_parks" /\ output # NoOutput)
    => LET parks == input.query.parks
       IN  /\ DOMAIN output[1] = {parks[k] : k \in 1..Len(parks)}
           /\ Len(events) = Len(parks)
           /\ \A k \in 1..Len(parks) : events[k].park = parks[k]
           /\ \A j, k \in 1..Len(parks) : j < k => events[j].at <= events[k].at
           /\ \A k \in FailedPasses :
                 (\A j \in (k + 1)..Len(parks) : parks[j] # parks[k])
                 => output[1][parks[k]] = << >>
           /\ \A j, k \in 1..Len(parks) :
                 (j < k /\ j \in ScrapeCalls) => k \in ScrapeCalls

\* the first of two parks failed, the second was scraped and has records
C13_Witness ==
    /\ input.op = "scrape_multiple_parks" /\ output # NoOutput
    /\ input.query.parks = <<"carlsbad", "oceanside">>
    /\ events[1].op = "scrape_park_availability" /\ events[1].raised
    /\ events[2].op = "scrape_park_availability" /\ ~events[2].raised
    /\ output[1]["carlsbad"] = << >>
    /\ output[1]["oceanside"] # << >>

---------------------------------------------------------------------------
(* Calls of handle_error and handle_success on one limiter                 *)

\* most handle_error calls in a row
MaxErrors == 4

\* seconds the clock is followed after the creation of the limiter
MaxBackoffClock == 9

InitBackoff ==
    /\ input = [op |-> "backoff"]
    /\ output = NoOutput
    /\ EmailInit
    /\ StoreInit
    /\ ProcessorInit
    /\ clock = 0
    /\ \E backoff_multiplier \in {1, 2, 3}, max_backoff_seconds \in {5, 300} :
          rate_limiter = FreshLimiter(2, None, backoff_multiplier,
                                      max_backoff_seconds, 0)
    /\ callers = << >>
    /\ worker = [pc |-> "idle"]
    /\ events = << >>

\* await rate_limiter.handle_error(e): the bookkeeping; the caller then sleeps
\* backoff_time seconds
HandleError ==
    /\ input.op = "backoff"
    /\ rate_limiter.consecutive_errors < MaxErrors
    /\ Len(events) < MaxErrors + 2
    /\ LET r == handle_error(rate_limiter, clock)
       IN  /\ rate_limiter' = r.rl
           /\ events' = Append(events, [op |-> "handle_error",
                                        backoff_time |-> r.backoff_time])
           /\ output' = <<is_backing_off(r.rl, clock)>>
    /\ UNCHANGED <<input, emailVars, storeVars, procVars, clock, callers, worker>>

\* rate_limiter.handle_success()
HandleSuccess ==
    /\ input.op = "backoff"
    /\ Len(events) < MaxErrors + 2
    /\ rate_limiter' = handle_success(rate_limiter)
    /\ events' = Append(events, [op |-> "handle_success", backoff_time |-> 0])
    /\ output' = <<is_backing_off(rate_limiter', clock)>>
    /\ UNCHANGED <<input, emailVars, storeVars, procVars, clock, callers, worker>>

\* a second passes; is_backing_off is read
BackoffTick ==
    /\ input.op = "backoff"
    /\ clock < MaxBackoffClock
    /\ clock' = clock + 1
    /\ output' = <<is_backing_off(rate_limiter, clock')>>
    /\ UNCHANGED <<input, emailVars, storeVars, procVars, rate_limiter, callers,
                   worker, events>>

NextBackoff ==
    \/ HandleError
    \/ HandleSuccess
    \/ BackoffTick

SpecBackoff == InitBackoff /\ [][NextBackoff]_vars

\* the last k calls logged were all handle_error, and k is all there were
\* since the limiter was created or last succeeded
ErrorsInARow(k) ==
    /\ Len(events) >= k
    /\ \A i \in (Len(events) - k + 1)..Len(events) : events[i].op = "handle_error"
    /\ Len(events) > k => events[Len(events) - k].op = "handle_success"

\* C15 as stated: with multiplier 2 and max_backoff 300, after 3 consecutive
\* handle_error calls the computed backoff is min(2^3, 300) = 8 seconds.
C15_AsStated ==
    (/\ input.op = "backoff"
     /\ rate_limiter.backoff_multiplier = 2
     /\ rate_limiter.max_backoff_seconds = 300
     /\ ErrorsInARow(3))
    => /\ BackoffTime(rate_limiter) = 8
       /\ events[Len(events)].backoff_time = 8

\* C15 (amended): with multiplier 2 and max_backoff 300, after 3 consecutive
\* handle_error calls the computed backoff is min(2^(3-1), 300) = 4 seconds,
\* both as slept by the third call and as used by is_backing_off; 8 seconds
\* is the backoff of the fourth consecutive call.
C15_BackoffGrowth ==
    (/\ input.op = "backoff"
     /\ rate_limiter.backoff_multiplier = 2
     /\ rate_limiter.max_backoff_seconds = 300)
    => /\ ErrorsInARow(3)
          => /\ BackoffTime(rate_limiter) = 4
             /\ events[Len(events)].backoff_time = 4
       /\ ErrorsInARow(4)
          => /\ BackoffTime(rate_limiter) = 8
             /\ events[Len(events)].backoff_time = 8

\* three handle_error calls in a row on a fresh limiter, still backing off
C15_Witness ==
    /\ input.op = "backoff"
    /\ rate_limiter.backoff_multiplier = 2
    /\ rate_limiter.max_backoff_seconds = 300
    /\ Len(events) = 3 /\ ErrorsInARow(3)
    /\ rate_limiter.consecutive_errors = 3
    /\ events[3].backoff_time = 4
    /\ output = <<TRUE>>

---------------------------------------------------------------------------
(* Concurrent callers of RateLimiter.acquire                               *)

\* coroutines that call acquire, and the last second at which one starts
MaxCallers == 3
MaxStart == 1

\* plausible slip: one token is taken whatever was asked for
TakeOneToken(rl, tokens) == [rl EXCEPT !.tokens = @ - 60]

\* self.tokens -= tokens (tokens in sixtieths)
TakeTokens(rl, tokens) == [rl EXCEPT !.tokens = @ - tokens * 60]

\* One round of the loop of _wait_for_tokens by caller i, who holds the lock,
\* and what follows it in acquire: with enough tokens the loop breaks, the
\* tokens are taken and the lock is released; otherwise the caller sleeps
\* min(tokens_needed / token_rate, 1.0) seconds, which is one second whenever
\* requests_per_minute divides 60 and the clock is read at whole seconds.
WaitRound(rl, c, i, now) ==
    LET updated == _update_tokens(rl, now)
    IN  IF updated.tokens >= c.n * 60
        THEN LET taken == TakeTokens(updated, c.n)
             IN  [rl |-> [taken EXCEPT !.locked_by = None],
                  caller |-> [c EXCEPT !.pc = "done", !.done_at = now,
                                       !.deducted = updated.tokens - taken.tokens]]
        ELSE [rl |-> [updated EXCEPT !.locked_by = i],
              caller |-> [c EXCEPT !.pc = "sleeping", !.wake = now + 1,
                                   !.sleeps = @ + 1]]

\* the limiters: requests_per_minute 2 with the default burst, and 6 with a
\* burst of 3
LimiterConfigs == {[requests_per_minute |-> 2, burst_size |-> None],
                   [requests_per_minute |-> 6, burst_size |-> 3]}

InitLimiter ==
    /\ \E cfg \in LimiterConfigs :
          /\ input = [op |-> "acquire",
                      requests_per_minute |-> cfg.requests_per_minute,
                      burst_size |-> cfg.burst_size]
          /\ rate_limiter = FreshLimiter(cfg.requests_per_minute, cfg.burst_size,
                                         2, 300, 0)
    /\ output = NoOutput
    /\ EmailInit
    /\ StoreInit
    /\ ProcessorInit
    /\ clock = 0
    /\ callers = << >>
    /\ worker = [pc |-> "idle"]
    /\ events = << >>

LockWaiters == {i \in 1..Len(callers) : callers[i].pc = "lock_wait"}

\* a coroutine that the event loop can run now
Runnable(i) ==
    \/ callers[i].pc = "lock_wait" /\ rate_limiter.locked_by = None
                                   /\ \A j \in LockWaiters : i <= j
    \/ callers[i].pc = "sleeping" /\ callers[i].wake <= clock

\* a coroutine calls acquire(n): ValueError when n exceeds burst_size; with
\* the lock free and nobody queued for it the caller enters at once and runs
\* the first round of the loop; otherwise it queues for the lock
CallAcquire ==
    /\ Len(callers) < MaxCallers
    /\ clock <= MaxStart
    /\ \E n \in 1..(rate_limiter.burst_size + 1) :
          LET i == Len(callers) + 1
              c == [n |-> n, pc |-> "lock_wait", start |-> clock, wake |-> 0,
                    done_at |-> 0, sleeps |-> 0, deducted |-> 0]
          IN  IF n > rate_limiter.burst_size
              THEN /\ callers' = Append(callers, [c EXCEPT !.pc = "raised"])
                   /\ UNCHANGED rate_limiter
              ELSE IF rate_limiter.locked_by = None /\ LockWaiters = {}
              THEN LET r == WaitRound(rate_limiter, c, i, clock)
                   IN  /\ callers' = Append(callers, r.caller)
                       /\ rate_limiter' = r.rl
              ELSE /\ callers' = Append(callers, c)
                   /\ UNCHANGED rate_limiter
    /\ UNCHANGED <<fnVars, emailVars, storeVars, procVars, clock, worker, events>>

\* the lock is released to the coroutine that has queued longest, which runs
\* the first round of its loop
LockGranted ==
    /\ \E i \in LockWaiters :
          /\ Runnable(i)
          /\ LET r == WaitRound(rate_limiter, callers[i], i, clock)
             IN  /\ callers' = [callers EXCEPT ![i] = r.caller]
                 /\ rate_limiter' = r.rl
    /\ UNCHANGED <<fnVars, emailVars, storeVars, procVars, clock, worker, events>>

\* asyncio.sleep(wait_time) returns: the next round of the loop
SleepOver ==
    /\ \E i \in 1..Len(callers) :
          /\ callers[i].pc = "sleeping"
          /\ Runnable(i)
          /\ LET r == WaitRound(rate_limiter, callers[i], i, clock)
             IN  /\ callers' = [callers EXCEPT ![i] = r.caller]
                 /\ rate_limiter' = r.rl
    /\ UNCHANGED <<fnVars, emailVars, storeVars, procVars, clock, worker, events>>

\* a second passes: the event loop has nothing to run, and either a caller is
\* asleep or a caller may still arrive
LimiterTick ==
    /\ \A i \in 1..Len(callers) : ~Runnable(i)
    /\ \/ clock < MaxStart
       \/ \E i \in 1..Len(callers) : callers[i].pc = "sleeping"
    /\ clock' = clock + 1
    /\ UNCHANGED <<fnVars, emailVars, storeVars, procVars, rate_limiter, callers,
                   worker, events>>

NextLimiter == CallAcquire \/ LockGranted \/ SleepOver \/ LimiterTick

SpecLimiter == InitLimiter /\ [][NextLimiter]_vars

\* the event loop runs what is runnable and time passes
SpecLimiterFair ==
    /\ SpecLimiter
    /\ WF_vars(LockGranted) /\ WF_vars(SleepOver) /\ WF_vars(LimiterTick)

\* the first k callers asked for one token each
FirstAskOne(k) ==
    /\ Len(callers) >= k
    /\ \A i \in 1..k : callers[i].n = 1

\* C14: with requests_per_minute 2 and burst_size 2 the first two acquire(1)
\* on a new limiter complete at once, without sleeping, and a third acquire(1)
\* does not complete before the bucket is back at one token, refilled at one
\* token per 30 seconds: 30 seconds after the first acquisition.
C14_TokenRefill ==
    (/\ input.op = "acquire"
     /\ rate_limiter.requests_per_minute = 2
     /\ rate_limiter.burst_size = 2)
    => /\ FirstAskOne(2)
          => \A i \in 1..2 : /\ callers[i].pc = "done"
                             /\ callers[i].done_at = callers[i].start
                             /\ callers[i].sleeps = 0
       /\ FirstAskOne(3)
          => /\ clock < callers[1].start + 30 => callers[3].pc # "done"
             /\ callers[3].pc = "sleeping"
                => rate_limiter.tokens < 60
             /\ callers[3].pc = "done"
                => /\ callers[3].done_at = callers[1].start + 30
                   /\ callers[3].sleeps = callers[3].done_at - callers[3].start

C14_Witness ==
    /\ input.op = "acquire"
    /\ rate_limiter.requests_per_minute = 2
    /\ rate_limiter.burst_size = 2
    /\ FirstAskOne(3)
    /\ \A i \in 1..3 : callers[i].start = 0 /\ callers[i].pc = "done"
    /\ callers[3].done_at = 30
    /\ clock = 30

\* what holds of the callers at every moment: the bucket is never overdrawn
\* nor overfull, a caller that asked for more than burst_size was refused and
\* any other that completed had exactly its tokens taken, and the lock is
\* held by the one caller inside the loop
AcquireSafe ==
    input.op = "acquire"
    => /\ rate_limiter.tokens \in 0..(rate_limiter.burst_size * 60)
       /\ \A i \in 1..Len(callers) :
             /\ callers[i].pc = "raised" <=> callers[i].n > rate_limiter.burst_size
             /\ callers[i].pc = "done" => callers[i].deducted = callers[i].n * 60
             /\ callers[i].pc = "sleeping" <=> rate_limiter.locked_by = i

\* C16: for every n <= burst_size and any number of concurrent callers, each
\* acquire(n) eventually completes as time advances, with exactly n tokens
\* taken from the bucket.
C16_AcquireCompletes ==
    /\ []AcquireSafe
    /\ \A i \in 1..MaxCallers :
          (/\ input.op = "acquire"
           /\ Len(callers) >= i
           /\ callers[i].n <= rate_limiter.burst_size)
          ~> (/\ Len(callers) >= i
              /\ callers[i].pc = "done"
              /\ callers[i].deducted = callers[i].n * 60)

C16_Witness ==
    /\ input.op = "acquire"
    /\ Len(callers) = MaxCallers
    /\ \A i \in 1..MaxCallers : /\ callers[i].n = rate_limiter.burst_size
                                /\ callers[i].start = 0
                                /\ callers[i].pc = "done"
    /\ callers[MaxCallers].sleeps > 0

---------------------------------------------------------------------------
(* ReservationParser: status normalization                                 *)

\* Text is a sequence of characters.  str.lower() on the letters that occur
LowerChar(ch) ==
    CASE ch = "A" -> "a" [] ch = "B" -> "b" [] ch = "C" -> "c" [] ch = "D" -> "d"
      [] ch = "E" -> "e" [] ch = "I" -> "i" [] ch = "K" -> "k" [] ch = "L" -> "l"
      [] ch = "M" -> "m" [] ch = "N" -> "n" [] ch = "O" -> "o" [] ch = "P" -> "p"
      [] ch = "R" -> "r" [] ch = "S" -> "s" [] ch = "T" -> "t" [] ch = "U" -> "u"
      [] ch = "V" -> "v"
      [] OTHER -> ch

lower(text) == [i \in 1..Len(text) |-> LowerChar(text[i])]

\* str.strip(): the text without its leading and trailing blanks
strip(text) ==
    LET inked == {i \in 1..Len(text) : text[i] # " "}
    IN  IF inked = {} THEN << >>
        ELSE LET first == CHOOSE i \in inked : \A j \in inked : i <= j
                 last == CHOOSE i \in inked : \A j \in inked : j <= i
             IN  SubSeq(text, first, last)

\* key in text: key occurs in text as a run of consecutive characters
Contains(text, key) ==
    \E at \in 1..(Len(text) - Len(key) + 1) :
        SubSeq(text, at, at + Len(key) - 1) = key

\* self.status_mapping, in the order in which the dict is built and iterated
status_mapping ==
    <<[key |-> <<"a", "v", "a", "i", "l", "a", "b", "l", "e">>, value |-> "available"],
       [key |-> <<"o", "p", "e", "n">>, value |-> "available"],
       [key |-> <<"a">>, value |-> "available"],
       [key |-> <<"b", "o", "o", "k", "e", "d">>, value |-> "booked"],
       [key |-> <<"r", "e", "s", "e", "r", "v", "e", "d">>, value |-> "booked"],
       [key |-> <<"r">>, value |-> "booked"],
       [key |-> <<"c", "l", "o", "s", "e", "d">>, value |-> "closed"],
       [key |-> <<"c">>, value |-> "closed"],
       [key |-> <<"m", "a", "i", "n", "t", "e", "n", "a", "n", "c", "e">>, value |-> "maintenance"],
       [key |-> <<"m">>, value |-> "maintenance"],
       [key |-> <<"u", "n", "a", "v", "a", "i", "l", "a", "b", "l", "e">>, value |-> "booked"],
       [key |-> <<"n", "a">>, value |-> "booked"]>>

\* ReservationParser._normalize_status: status_raw is None (is_none) or a
\* text; the first key of the mapping that equals the lower-cased, stripped
\* text or occurs in it decides
_normalize_status(is_none, status_raw) ==
    IF is_none \/ status_raw = << >> THEN "unknown"
    ELSE LET status_str == strip(lower(status_raw))
             hits == {i \in 1..Len(status_mapping) :
                         \/ status_mapping[i].key = status_str
                         \/ Contains(status_str, status_mapping[i].key)}
         IN  IF hits = {} THEN "unknown"
             ELSE status_mapping[CHOOSE i \in hits : \A j \in hits : i <= j].value

\* the table of the specification, read on the lower-cased and stripped
\* token: the listed tokens map as listed, anything else to unknown
TableStatus(token) ==
    LET hits == {i \in 1..Len(status_mapping) : status_mapping[i].key = token}
    IN  IF hits = {} THEN "unknown"
        ELSE status_mapping[CHOOSE i \in hits : TRUE].value

\* raw status texts: the keys of the mapping, spellings of them and other
\* words as a page shows them, and every text of up to MaxTokenLen characters
\* over a short alphabet
MaxTokenLen == 2
TokenAlphabet == {"a", "r", "c", "m", "n", "x", "R", " "}

ShortTokens == UNION {[1..n -> TokenAlphabet] : n \in 0..MaxTokenLen}

PageTokens ==
    {<<"R", "e", "s", "e", "r", "v", "e", "d">>,
     <<"R", "E", "S", "E", "R", "V", "E", "D">>,
     <<"A", "v", "a", "i", "l", "a", "b", "l", "e">>,
     <<" ", "o", "p", "e", "n", " ">>,
     <<"O", "P", "E", "N">>,
     <<"B", "o", "o", "k", "e", "d">>,
     <<"C", "l", "o", "s", "e", "d">>,
     <<"M", "a", "i", "n", "t", "e", "n", "a", "n", "c", "e">>,
     <<"M", "A", "I", "N", "T", "E", "N", "A", "N", "C", "E">>,
     <<"U", "n", "a", "v", "a", "i", "l", "a", "b", "l", "e">>,
     <<"N", "A">>,
     <<"e", "r", "r", "o", "r">>,
     <<"s", "o", "l", "d", " ", "o", "u", "t">>,
     <<"p", "e", "n", "d", "i", "n", "g">>,
     <<"f", "u", "l", "l">>,
     <<"w", "a", "l", "k", "-", "u", "p">>}

RawStatuses ==
    {status_mapping[i].key : i \in 1..Len(status_mapping)} \cup PageTokens \cup ShortTokens

InitStatus ==
    /\ \E is_none \in BOOLEAN : \E status_raw \in RawStatuses :
          /\ is_none => status_raw = << >>
          /\ input = [op |-> "_normalize_status", is_none |-> is_none,
                      status_raw |-> status_raw]
    /\ output = NoOutput
    /\ EmailInit
    /\ StoreInit
    /\ ProcessorInit
    /\ ScraperInit

NormalizeStatus ==
    /\ input.op = "_normalize_status"
    /\ output = NoOutput
    /\ output' = <<_normalize_status(input.is_none, input.status_raw)>>
    /\ UNCHANGED <<input, emailVars, storeVars, procVars, scrapeVars>>

NextStatus == NormalizeStatus

SpecStatus == InitStatus /\ [][NextStatus]_vars

\* C17: status normalization follows the table for every lower-cased input
\* token: available, open, a -> available; booked, reserved, r -> booked;
\* closed, c -> closed; maintenance, m -> maintenance; unavailable, na ->
\* booked; anything else -> unknown.
C17_StatusTable ==
    (input.op = "_normalize_status" /\ output # NoOutput)
    => output[1] = IF input.is_none THEN "unknown"
                   ELSE TableStatus(strip(lower(input.status_raw)))

---------------------------------------------------------------------------
(* The worker command                                                      *)

\* cycles that are told apart (the count stays at its last value), and the
\* seconds that pass in one step of a sleep
MaxCycles == 3
SleepStep == 60

\* asyncio.sleep(300), asyncio.sleep(1500) and asyncio.sleep(600)
alerts_delay == 300
cycle_rest == 1500
error_wait == 600

\* how a command body ends: every command catches Exception itself and
\* calls sys.exit(1), so it returns or raises SystemExit
CommandOutcomes == {"returned", "SystemExit"}

\* plausible variant: the callbacks are left as the coroutine functions, so
\* that awaiting one runs the command body in the running loop
RunCommandDirectly(running_loop, outcome) == outcome

\* command.callback after the wrapping of all six commands: asyncio.run
\* refuses to start inside a running event loop and raises RuntimeError
\* before the command body runs; otherwise the body runs to its outcome
run_async_command(running_loop, outcome) ==
    IF running_loop THEN "RuntimeError" ELSE outcome

Max(a, b) == IF a >= b THEN a ELSE b

\* worker() as started from the command line: its own callback is running
\* under asyncio.run, first cycle about to call scrape
InitWorker ==
    /\ input = [op |-> "worker"]
    /\ output = NoOutput
    /\ EmailInit
    /\ StoreInit
    /\ ProcessorInit
    /\ clock = 0
    /\ rate_limiter = FreshLimiter(2, None, 2, 300, 0)
    /\ callers = << >>
    /\ worker = [pc |-> "scrape", running_loop |-> TRUE, cycle |-> 1,
                 remaining |-> 0, last_cycle |-> << >>]
    /\ events = << >>

\* the sleep that follows a step that returned
SleepAfter(step) ==
    IF step = "scrape" THEN [pc |-> "sleep_alerts", seconds |-> alerts_delay]
    ELSE [pc |-> "sleep_rest", seconds |-> cycle_rest]

\* await scrape.callback(parks=(), days=30) and await process_alerts.callback():
\* an Exception is caught by the handler of the cycle, which logs it and
\* starts the sleep of 600 seconds; SystemExit passes every handler of
\* worker and ends the process
AwaitCallback ==
    /\ input.op = "worker"
    /\ worker.pc \in {"scrape", "process_alerts"}
    /\ \E outcome \in CommandOutcomes :
          LET result == run_async_command(worker.running_loop, outcome)
              called == [step |-> worker.pc, outcome |-> outcome, result |-> result]
          IN  CASE result = "returned" ->
                     /\ worker' = [worker EXCEPT !.pc = SleepAfter(worker.pc).pc,
                                                 !.remaining = SleepAfter(worker.pc).seconds]
                     /\ events' = events \o <<called,
                                    [step |-> "sleep", seconds |-> SleepAfter(worker.pc).seconds]>>
                [] result = "SystemExit" ->
                     /\ worker' = [worker EXCEPT !.pc = "exited"]
                     /\ events' = Append(events, called)
                [] OTHER ->
                     /\ worker' = [worker EXCEPT !.pc = "sleep_error",
                                                 !.remaining = error_wait]
                     /\ events' = events \o <<called, [step |-> "log_error"],
                                    [step |-> "sleep", seconds |-> error_wait]>>
    /\ UNCHANGED <<fnVars, emailVars, storeVars, procVars, clock, rate_limiter, callers>>

\* time passes in a sleep; when it is over the worker goes on: to alert
\* processing after the first sleep of a cycle, to the scrape of a new cycle
\* after the others
Asleep ==
    /\ input.op = "worker"
    /\ worker.pc \in {"sleep_alerts", "sleep_rest", "sleep_error"}
    /\ LET left == Max(0, worker.remaining - SleepStep)
       IN  IF left > 0
           THEN /\ worker' = [worker EXCEPT !.remaining = left]
                /\ UNCHANGED events
           ELSE IF worker.pc = "sleep_alerts"
           THEN /\ worker' = [worker EXCEPT !.pc = "process_alerts", !.remaining = 0]
                /\ UNCHANGED events
           ELSE /\ worker' = [worker EXCEPT !.pc = "scrape", !.remaining = 0,
                                            !.cycle = Min(@ + 1, MaxCycles),
                                            !.last_cycle = events]
                /\ events' = << >>
    /\ UNCHANGED <<fnVars, emailVars, storeVars, procVars, clock, rate_limiter, callers>>

\* the process is interrupted from outside
Interrupt ==
    /\ input.op = "worker"
    /\ worker.pc \notin {"exited", "interrupted"}
    /\ worker' = [worker EXCEPT !.pc = "interrupted"]
    /\ UNCHANGED <<fnVars, emailVars, storeVars, procVars, clock, rate_limiter,
                   callers, events>>

NextWorker == AwaitCallback \/ Asleep \/ Interrupt

SpecWorker == InitWorker /\ [][NextWorker]_vars

\* the event loop runs the worker and time passes; whether an interruption
\* comes is left open
SpecWorkerFair == SpecWorker /\ WF_vars(AwaitCallback) /\ WF_vars(Asleep)

\* the steps of a cycle that failed at step i: the failed call, the log
\* entry and the sleep of 600 seconds, and nothing after them
FailureHandled(log, i) ==
    /\ Len(log) = i + 2
    /\ log[i + 1].step = "log_error"
    /\ log[i + 2] = [step |-> "sleep", seconds |-> error_wait]

FailedCalls(log) ==
    {i \in 1..Len(log) : log[i].step \in {"scrape", "process_alerts"}
                         /\ log[i].result # "returned"}

\* no step failure ends the process, and a failed step is followed by the
\* log entry and the wait in the running cycle and in the one before it
WorkerSafe ==
    input.op = "worker"
    => /\ worker.pc # "exited"
       /\ \A i \in FailedCalls(events) : FailureHandled(events, i)
       /\ \A i \in FailedCalls(worker.last_cycle) : FailureHandled(worker.last_cycle, i)
       /\ worker.pc = "sleep_error" => FailedCalls(events) # {}
       /\ FailedCalls(events) # {} => worker.pc \in {"sleep_error", "interrupted"}

\* C18: the worker ends only on external interruption: a failure raised by
\* the scrape step or by the alert-processing step of a cycle is logged and
\* followed by a wait of 10 minutes and then a new cycle, and no failure of
\* a cycle step ends the worker process.
C18_WorkerSurvives ==
    /\ []WorkerSafe
    /\ (input.op = "worker" /\ worker.pc = "sleep_error")
       ~> (worker.pc \in {"scrape", "interrupted"})

C18_Witness ==
    /\ input.op = "worker"
    /\ worker.pc = "scrape"
    /\ worker.cycle = 2
    /\ FailedCalls(worker.last_cycle) = {1}
    /\ FailureHandled(worker.last_cycle, 1)

\* the steps of a whole cycle as the specification lists them
FullCycle ==
    <<"scrape", "sleep", "process_alerts", "sleep">>

\* a cycle none of whose commands would fail
CycleSteps(log) == [i \in 1..Len(log) |-> log[i].step]

NoCommandFails(log) ==
    \A i \in 1..Len(log) :
        log[i].step \in {"scrape", "process_alerts"} => log[i].outcome = "returned"

\* C19: every cycle whose steps do not fail runs, in this order, a full
\* scrape, a wait of 5 minutes, alert processing and a wait of 25 minutes
\* before the scrape of the next cycle; alert processing does not start
\* before the scrape of its cycle has finished and is eventually run in the
\* cycle.
C19_CycleSequence ==
    /\ [](input.op = "worker"
          => /\ (worker.last_cycle # << >> /\ NoCommandFails(worker.last_cycle))
                => /\ CycleSteps(worker.last_cycle) = FullCycle
                   /\ worker.last_cycle[2].seconds = alerts_delay
                   /\ worker.last_cycle[4].seconds = cycle_rest
             /\ worker.pc = "process_alerts"
                => (Len(events) = 2 /\ events[1].step = "scrape"
                                    /\ events[1].result = "returned"))
    /\ (/\ input.op = "worker" /\ Len(events) >= 1
        /\ events[1].step = "scrape" /\ events[1].outcome = "returned")
       ~> (\/ worker.pc = "interrupted"
           \/ \E i \in 1..Len(events) : events[i].step = "process_alerts")

---------------------------------------------------------------------------
(* The scrape command                                                      *)

\* parks named on the command line at most, and the values of --days
MaxTargets == 2
DaysGiven == {0, 1, 30}

\* get_all_parks(): the keys of PARK_CONFIGS in their order
get_all_parks == <<"joshua_tree", "carlsbad", "oceanside">>

\* CampsiteSearchQuery.validate_date_range: the end date is after the start
validate_date_range(start_date, end_date) == end_date > start_date

\* Crawl4AIClient.health_check: True when GET /health answers 200, False on
\* any other status and on every exception
scraper_health_check(health_endpoint) == health_endpoint = "ok"

\* plausible slip: the records are stored whatever the store's health
ShouldStoreAnyway(records, db_healthy) == records # << >>

\* if availability and db_healthy
ShouldStore(records, db_healthy) == records # << >> /\ db_healthy

\* the command as started from the command line with valid park names
InitCommand ==
    /\ \E parks \in SeqUpTo(ParkEnum, MaxTargets), days \in DaysGiven :
       \E health_endpoint \in {"ok", "bad_status", "unreachable"}, wired_to \in Backends :
          input = [op |-> "scrape", parks |-> parks, days |-> days,
                   health_endpoint |-> health_endpoint, backend |-> wired_to]
    /\ output = NoOutput
    /\ EmailInit
    /\ StoreInit
    /\ ProcessorInit
    /\ clock = 0
    /\ rate_limiter = FreshLimiter(2, None, 2, 300, 0)
    /\ callers = << >>
    /\ worker = [pc |-> "scrape", idx |-> 0, park_list |-> << >>,
                 crawl_healthy |-> FALSE, db_healthy |-> FALSE, total_scraped |-> 0]
    /\ events = << >>

\* scrape up to the park loop: the target parks, both health checks, the
\* return when the scraper is unhealthy, and the search query, whose
\* validation error reaches the handler of the command (sys.exit(1))
ScrapeSetup ==
    /\ input.op = "scrape" /\ worker.pc = "scrape"
    /\ LET park_list == IF input.parks # << >> THEN input.parks ELSE get_all_parks
           crawl_healthy == scraper_health_check(input.health_endpoint)
           db_healthy == health_check(input.backend)
           checked == [worker EXCEPT !.park_list = park_list,
                                     !.crawl_healthy = crawl_healthy,
                                     !.db_healthy = db_healthy]
       IN  IF ~crawl_healthy
           THEN /\ worker' = [checked EXCEPT !.pc = "returned"]
                /\ output' = <<[exit_status |-> 0]>>
           ELSE IF ~validate_date_range(date_today, date_today + input.days)
           THEN /\ worker' = [checked EXCEPT !.pc = "exited"]
                /\ output' = <<[exit_status |-> 1]>>
           ELSE /\ worker' = [checked EXCEPT !.pc = "park_loop", !.idx = 1]
                /\ output' = output
    /\ UNCHANGED <<input, emailVars, storeVars, procVars, clock, rate_limiter,
                   callers, events>>

\* one pass of the park loop of scrape: the park is scraped and, with records
\* and a healthy store, stored; an exception of either call is logged and the
\* loop goes on.  After the last park the command returns.
ScrapePark ==
    /\ input.op = "scrape" /\ worker.pc = "park_loop"
    /\ LET park == worker.park_list[worker.idx]
       IN  \E crawl_ok \in BOOLEAN, extract_ok \in BOOLEAN, data \in CampsitesData :
             LET r == scrape_park_availability(rate_limiter, clock, park, crawl_ok,
                                               extract_ok, data)
                 scraped == [op |-> "scrape_park_availability", park |-> park,
                             n |-> Len(r.value), raised |-> r.raised,
                             steps |-> r.steps, taken |-> r.taken]
                 storing == ~r.raised /\ ShouldStore(r.value, worker.db_healthy)
                 stored == store_availability_data(input.backend, Len(r.value))
                 counted == IF storing /\ ~stored.raised
                            THEN worker.total_scraped + Len(r.value)
                            ELSE worker.total_scraped
             IN  \* outcomes that are never looked at are drawn once
                 /\ ~crawl_ok => (extract_ok /\ data = << >>)
                 /\ ~extract_ok => data = << >>
                 /\ events' = IF storing
                              THEN events \o <<scraped,
                                      [op |-> "store_availability_data", park |-> park,
                                       n |-> Len(r.value), raised |-> stored.raised]>>
                              ELSE Append(events, scraped)
                 /\ rate_limiter' = r.rl
                 /\ clock' = r.now
                 /\ IF worker.idx = Len(worker.park_list)
                    THEN /\ worker' = [worker EXCEPT !.pc = "returned",
                                                     !.total_scraped = counted]
                         /\ output' = <<[exit_status |-> 0]>>
                    ELSE /\ worker' = [worker EXCEPT !.idx = @ + 1,
                                                     !.total_scraped = counted]
                         /\ output' = output
    /\ UNCHANGED <<input, emailVars, storeVars, procVars, callers>>

NextCommand == ScrapeSetup \/ ScrapePark

SpecCommand == InitCommand /\ [][NextCommand]_vars

\* the passes of the park loop, and the calls of the store
ParkScrapes == {k \in 1..Len(events) : events[k].op = "scrape_park_availability"}
StoreCalls == {k \in 1..Len(events) : events[k].op = "store_availability_data"}

CommandEnded == worker.pc \in {"returned", "exited"}

\* every target park has been scraped, in the order of the targets
AllTargetsScraped ==
    /\ Len(worker.park_list) > 0
    /\ Cardinality(ParkScrapes) = Len(worker.park_list)
    /\ \A p \in 1..Len(worker.park_list) :
          \E k \in ParkScrapes : events[k].park = worker.park_list[p]

\* no park is scraped when the scraper is unhealthy, and the store is called
\* for a park only after both health checks passed and that park's scrape
\* returned at least one record
GatedCalls ==
    /\ ~scraper_health_check(input.health_endpoint) => ParkScrapes = {}
    /\ \A k \in StoreCalls :
          /\ scraper_health_check(input.health_endpoint)
          /\ health_check(input.backend)
          /\ k - 1 \in ParkScrapes
          /\ events[k - 1].park = events[k].park
          /\ ~events[k - 1].raised
          /\ events[k - 1].n >= 1
          /\ events[k].n = events[k - 1].n

\* the statement without the condition on the search window
C20_AsStated ==
    input.op = "scrape"
    => /\ GatedCalls
       /\ (/\ CommandEnded
           /\ scraper_health_check(input.health_endpoint)
           /\ ~health_check(input.backend))
          => (AllTargetsScraped /\ StoreCalls = {})

\* C20: health gating in the scrape command: no park is scraped when the
\* scraper health check fails; when the scraper is healthy but the store
\* health check fails, every target park is still scraped, provided the
\* search window is valid (days >= 1), and store_availability_data is never
\* called in that run; store_availability_data is called for a park only
\* when both health checks passed and that park's scrape returned at least
\* one record.
C20_HealthGating ==
    input.op = "scrape"
    => /\ GatedCalls
       /\ (/\ scraper_health_check(input.health_endpoint)
           /\ ~health_check(input.backend))
          => /\ StoreCalls = {}
             /\ (CommandEnded /\ input.days >= 1) => AllTargetsScraped
             /\ (CommandEnded /\ input.days < 1)
                => (ParkScrapes = {} /\ worker.pc = "exited")

C20_Witness ==
    /\ input.op = "scrape"
    /\ input.parks = << >>
    /\ scraper_health_check(input.health_endpoint)
    /\ ~health_check(input.backend)
    /\ worker.pc = "returned"
    /\ AllTargetsScraped
    /\ \E k \in ParkScrapes : events[k].n >= 1
    /\ \E k \in ParkScrapes : events[k].raised
    /\ StoreCalls = {}

---------------------------------------------------------------------------
(* The setup command                                                       *)

\* how the SMTP session of test_email_connection ends: any exception of
\* connect, starttls or login is answered with False
SmtpSessions == {"ok", "connect_failed", "starttls_failed", "login_failed"}

test_email_connection(smtp_session) == smtp_session = "ok"

HealthEndpoints == {"ok", "bad_status", "unreachable"}

\* the command as started from the command line
InitSetup ==
    /\ \E wired_to \in Backends, smtp_session \in SmtpSessions :
       \E health_endpoint \in HealthEndpoints :
          input = [op |-> "setup", backend |-> wired_to, smtp_session |-> smtp_session,
                   health_endpoint |-> health_endpoint]
    /\ output = NoOutput
    /\ EmailInit
    /\ StoreInit
    /\ ProcessorInit
    /\ clock = 0
    /\ rate_limiter = FreshLimiter(2, None, 2, 300, 0)
    /\ callers = << >>
    /\ worker = [pc |-> "setup_store"]
    /\ events = << >>

\* the store check: a failed health check is logged and the command returns
SetupStore ==
    /\ input.op = "setup" /\ worker.pc = "setup_store"
    /\ LET healthy == health_check(input.backend)
       IN  /\ events' = Append(events, [check |-> "store", passed |-> healthy])
           /\ IF healthy
              THEN /\ worker' = [pc |-> "setup_email"]
                   /\ output' = output
              ELSE /\ worker' = [pc |-> "returned"]
                   /\ output' = <<[exit_status |-> 0]>>
    /\ UNCHANGED <<input, emailVars, storeVars, procVars, clock, rate_limiter, callers>>

\* the email check: pass or warning, then on
SetupEmail ==
    /\ input.op = "setup" /\ worker.pc = "setup_email"
    /\ events' = Append(events, [check |-> "email",
                                 passed |-> test_email_connection(input.smtp_session)])
    /\ worker' = [pc |-> "setup_scraper"]
    /\ UNCHANGED <<fnVars, emailVars, storeVars, procVars, clock, rate_limiter, callers>>

\* the scraper check: pass or warning, then "Setup complete!"
SetupScraper ==
    /\ input.op = "setup" /\ worker.pc = "setup_scraper"
    /\ events' = Append(events, [check |-> "scraper",
                                 passed |-> scraper_health_check(input.health_endpoint)])
    /\ worker' = [pc |-> "returned"]
    /\ output' = <<[exit_status |-> 0]>>
    /\ UNCHANGED <<input, emailVars, storeVars, procVars, clock, rate_limiter, callers>>

NextSetup == SetupStore \/ SetupEmail \/ SetupScraper

SpecSetup == InitSetup /\ [][NextSetup]_vars

\* C21: every run of setup performs the three connectivity checks, store,
\* email and scraper service, in that order; a failing check is logged and
\* the remaining checks are still executed.
C21_AllChecksRun ==
    (input.op = "setup" /\ worker.pc = "returned")
    => /\ Len(events) = 3
       /\ events[1].check = "store"
       /\ events[2].check = "email"
       /\ events[3].check = "scraper"

---------------------------------------------------------------------------
(* The notification batch and the processed keys across calls              *)

\* the send attempts and the record_notification calls of call c
SendsOf(c) == {i \in 1..Len(send_log) : send_log[i].call = c}
StoredIn(c) == {i \in 1..Len(events) : events[i].call = c}

\* call c has returned
CallOver(c) == c < Len(call_log) \/ (c = Len(call_log) /\ pc = "idle")

\* the record_notification calls of call c are, in order, the records of
\* the send attempts of call c: one call for each attempt
EachRecordOnce(c) ==
    /\ Cardinality(StoredIn(c)) = Cardinality(SendsOf(c))
    /\ \A i \in SendsOf(c) :
          LET first_send == CHOOSE j \in SendsOf(c) : \A k \in SendsOf(c) : j <= k
              first_call == CHOOSE j \in StoredIn(c) : \A k \in StoredIn(c) : j <= k
              passed == events[first_call + (i - first_send)].record
          IN  /\ passed.alert_rule_id = send_log[i].rule
              /\ SiteKey(passed) = send_log[i].sites[1]
              /\ passed.status = IF send_log[i].outcome = "ok" THEN "sent" ELSE "failed"

\* C22: within one process_new_availability call that reaches the rule loop
\* no notification record is handed to the store before all active rules
\* have been evaluated, every record produced by a send attempt of the call
\* is passed to record_notification exactly once, and the pending batch is
\* empty when the call returns.
C22_SingleFlush ==
    input.op = "process_new_availability"
    => /\ pc \in {"rules", "flush"} => StoredIn(Len(call_log)) = {}
       /\ pc = "idle" => notification_batch = << >>
       /\ \A c \in 1..Len(call_log) : CallOver(c) => EachRecordOnce(c)

C22_Witness ==
    /\ input.op = "process_new_availability"
    /\ pc = "idle" /\ Len(call_log) = 2
    /\ Cardinality(StoredIn(1)) >= 2
    /\ Cardinality(StoredIn(2)) >= 1
    /\ \E i \in SendsOf(1) : send_log[i].outcome # "ok"
    /\ notification_batch = << >>

\* C23: within one process_new_availability call, once a (park, site id,
\* check-in date) key has been included in a successfully sent email, the
\* key is included in no email sent later in the same call, emails of other
\* active rules that match the site included.
C23_InBatchDuplicateGuard ==
    input.op = "process_new_availability"
    => \A i, j \in 1..Len(send_log) :
          (/\ i < j
           /\ send_log[i].call = send_log[j].call
           /\ send_log[i].outcome = "ok" /\ send_log[j].outcome = "ok")
          => SitesListed(i) \cap SitesListed(j) = {}

\* AlertProcessor.get_processing_stats on the processor as it stands
get_processing_stats ==
    [processed_notifications_count |-> Cardinality(processed_notifications),
     pending_notification_batch |-> Len(notification_batch),
     email_delivery_stats |-> delivery_stats]

\* C24: on a processor reused across calls the pending batch and the set of
\* processed keys are both empty at the start of every
\* process_new_availability call, so that nothing accumulated in one call is
\* visible to, counted in or flushed by a later call.
C24_AccumulatorScoping ==
    (input.op = "process_new_availability" /\ pc = "idle")
    => /\ notification_batch = << >>
       /\ processed_notifications = {}
       /\ get_processing_stats.processed_notifications_count = 0
       /\ get_processing_stats.pending_notification_batch = 0

---------------------------------------------------------------------------
(* Requests to the crawling service and limiter tokens                     *)

ServiceRequests == {"crawl_website", "extract_structured_data"}

\* the requests and the acquisitions among the first p steps of a call
RequestsUpTo(steps, p) == Cardinality({q \in 1..p : steps[q] \in ServiceRequests})
AcquiresUpTo(steps, p) == Cardinality({q \in 1..p : steps[q] = "acquire"})

\* the statement with a token for each request
C25_AsStated ==
    input.op = "scrape"
    => \A k \in ParkScrapes :
          \A p \in 1..Len(events[k].steps) :
             events[k].steps[p] \in ServiceRequests
             => RequestsUpTo(events[k].steps, p) <= AcquiresUpTo(events[k].steps, p)

\* C25: every scrape_park_availability call acquires exactly one
\* rate-limiter token, before its first request to the crawling service;
\* that token covers the page-crawl request and, when the crawl succeeded,
\* the structured-extraction request that follows, so the page-crawl
\* requests sent never exceed the tokens acquired and the requests sent
\* never exceed twice the tokens acquired.
C25_TokenPerScrape ==
    input.op = "scrape"
    => /\ \A k \in ParkScrapes :
             LET steps == events[k].steps
             IN  /\ steps[1] = "acquire" /\ steps[2] = "crawl_website"
                 /\ AcquiresUpTo(steps, Len(steps)) = 1
                 /\ events[k].taken = 60
                 /\ RequestsUpTo(steps, Len(steps)) \in 1..2
                 /\ RequestsUpTo(steps, Len(steps)) = 2
                    <=> (~events[k].raised /\ steps[3] = "extract_structured_data")
                 /\ \A p \in 1..Len(steps) :
                       steps[p] \in ServiceRequests => AcquiresUpTo(steps, p) = 1

C25_Witness ==
    /\ input.op = "scrape"
    /\ worker.pc = "returned"
    /\ \E k \in ParkScrapes : Len(events[k].steps) = 3 /\ events[k].n >= 1
    /\ \E k \in ParkScrapes : Len(events[k].steps) = 2 /\ events[k].raised

---------------------------------------------------------------------------
(* The limiter's counters shared between acquire and the other methods     *)

\* calls of handle_error, handle_success and get_status in one run, made
\* like the calls of acquire in the first MaxStart seconds
MaxOps == 2

\* RateLimiter.get_status at time now: the bucket is refilled, then read
get_status(rl, now) ==
    LET updated == _update_tokens(rl, now)
    IN  [rl |-> updated,
         status |-> [tokens_available |-> updated.tokens,
                     tokens_per_minute |-> updated.requests_per_minute,
                     consecutive_errors |-> updated.consecutive_errors,
                     is_backing_off |-> is_backing_off(updated, now),
                     last_error_time |-> updated.last_error_time]]

\* coroutines that call acquire() while the other methods are called
MaxSharers == 3

\* the limiters of the shared runs, both with a burst of 1: one token per
\* second, and one per two seconds
SharedConfigs == {[requests_per_minute |-> 60, burst_size |-> 1],
                  [requests_per_minute |-> 30, burst_size |-> 1]}

InitShared ==
    /\ \E cfg \in SharedConfigs :
          /\ input = [op |-> "shared",
                      requests_per_minute |-> cfg.requests_per_minute,
                      burst_size |-> cfg.burst_size]
          /\ rate_limiter = FreshLimiter(cfg.requests_per_minute, cfg.burst_size,
                                         2, 300, 0)
    /\ output = NoOutput
    /\ EmailInit
    /\ StoreInit
    /\ ProcessorInit
    /\ clock = 0
    /\ callers = << >>
    /\ worker = [pc |-> "idle"]
    /\ events = << >>

\* the counters of the limiter that the methods assign
Counters(rl) == <<rl.tokens, rl.last_update, rl.consecutive_errors, rl.last_error_time>>

\* what one call of a method without an await before its assignments did:
\* lock_held tells whether the calling coroutine held self._lock, in_acquire
\* is the caller that was inside acquire, asleep in _wait_for_tokens
MethodCall(op, before, after) ==
    [op |-> op, at |-> clock, lock_held |-> FALSE,
     in_acquire |-> before.locked_by,
     mutated |-> Counters(after) # Counters(before),
     tokens |-> after.tokens]

\* a coroutine calls acquire() with the default of one token: with the lock
\* free and nobody queued for it the caller enters at once and runs the first
\* round of the loop; otherwise it queues for the lock
CallAcquireOne ==
    /\ Len(callers) < MaxSharers
    /\ clock <= MaxStart
    /\ LET i == Len(callers) + 1
           c == [n |-> 1, pc |-> "lock_wait", start |-> clock, wake |-> 0,
                 done_at |-> 0, sleeps |-> 0, deducted |-> 0]
       IN  IF rate_limiter.locked_by = None /\ LockWaiters = {}
           THEN LET r == WaitRound(rate_limiter, c, i, clock)
                IN  /\ callers' = Append(callers, r.caller)
                    /\ rate_limiter' = r.rl
           ELSE /\ callers' = Append(callers, c)
                /\ UNCHANGED rate_limiter
    /\ UNCHANGED <<fnVars, emailVars, storeVars, procVars, clock, worker, events>>

\* another coroutine calls handle_error: the bookkeeping runs at once, the
\* sleep that follows touches nothing
CallHandleError ==
    /\ Len(events) < MaxOps
    /\ clock <= MaxStart
    /\ LET r == handle_error(rate_limiter, clock)
       IN  /\ rate_limiter' = r.rl
           /\ events' = Append(events, MethodCall("handle_error", rate_limiter, r.rl))
    /\ UNCHANGED <<fnVars, emailVars, storeVars, procVars, clock, callers, worker>>

\* another coroutine calls handle_success
CallHandleSuccess ==
    /\ Len(events) < MaxOps
    /\ clock <= MaxStart
    /\ LET after == handle_success(rate_limiter)
       IN  /\ rate_limiter' = after
           /\ events' = Append(events, MethodCall("handle_success", rate_limiter, after))
    /\ UNCHANGED <<fnVars, emailVars, storeVars, procVars, clock, callers, worker>>

\* another coroutine calls get_status
CallGetStatus ==
    /\ Len(events) < MaxOps
    /\ clock <= MaxStart
    /\ LET r == get_status(rate_limiter, clock)
       IN  /\ rate_limiter' = r.rl
           /\ events' = Append(events, MethodCall("get_status", rate_limiter, r.rl))
    /\ UNCHANGED <<fnVars, emailVars, storeVars, procVars, clock, callers, worker>>

NextShared ==
    \/ CallAcquireOne
    \/ LockGranted
    \/ SleepOver
    \/ LimiterTick
    \/ CallHandleError
    \/ CallHandleSuccess
    \/ CallGetStatus

SpecShared == InitShared /\ [][NextShared]_vars

\* C26: every change of the counters (tokens, last update time, consecutive
\* errors, last error time) by handle_error, handle_success or get_status is
\* made with the limiter's lock held, so never while another coroutine is
\* inside acquire waiting for tokens.
C26_MutationsUnderLock ==
    input.op = "shared"
    => \A k \in 1..Len(events) :
          events[k].mutated => /\ events[k].lock_held
                               /\ events[k].in_acquire = None

\* C29: whatever the interleaving of acquire, the refill, handle_error,
\* handle_success and get_status, 0 <= tokens <= burst_size.
C29_TokenBucketBounds ==
    input.op = "shared"
    => /\ rate_limiter.tokens >= 0
       /\ rate_limiter.tokens <= rate_limiter.burst_size * 60
       /\ \A k \in 1..Len(events) :
             events[k].tokens \in 0..(rate_limiter.burst_size * 60)

\* the bucket was emptied by acquire, one caller sleeps inside acquire, and
\* meanwhile an error was handled and get_status refilled the bucket
C29_Witness ==
    /\ input.op = "shared"
    /\ Len(events) = MaxOps
    /\ \E j, k \in 1..Len(events) :
          /\ events[j].op = "handle_error" /\ events[j].in_acquire # None
          /\ events[k].op = "get_status" /\ events[k].mutated
             /\ events[k].in_acquire # None
    /\ \E i \in 1..Len(callers) : callers[i].pc = "done"
    /\ \E i \in 1..Len(callers) : callers[i].pc = "sleeping"
    /\ rate_limiter.tokens = rate_limiter.burst_size * 60

---------------------------------------------------------------------------
(* HostRateLimiter: one limiter per hostname                               *)

\* coroutines that call HostRateLimiter.acquire
MaxHostCallers == 3

HostNames == {"reservecalifornia.com", "recreation.gov"}

\* the requests_per_minute argument of acquire: not given, or a rate
HostRates == {None, 1, 30}

\* HostRateLimiter.__init__ with the default default_requests_per_minute;
\* ids numbers the RateLimiter objects in the order of their construction
FreshHostLimiter ==
    [default_requests_per_minute |-> 2,
     limiters |-> [h \in {} |-> 0],
     ids |-> [h \in {} |-> 0],
     made |-> 0]

\* self.limiters[host] = RateLimiter(requests_per_minute=rpm) with
\* rpm = requests_per_minute or self.default_requests_per_minute
CreateLimiter(hl, host, requests_per_minute, now) ==
    LET rpm == IF Truthy(requests_per_minute) THEN requests_per_minute
               ELSE hl.default_requests_per_minute
    IN  [hl EXCEPT !.limiters = [h \in DOMAIN hl.limiters \cup {host} |->
                                    IF h = host THEN FreshLimiter(rpm, None, 2, 300, now)
                                    ELSE hl.limiters[h]],
                   !.ids = [h \in DOMAIN hl.ids \cup {host} |->
                               IF h = host THEN hl.made + 1 ELSE hl.ids[h]],
                   !.made = @ + 1]

\* plausible slip: the limiter is made anew on every acquire
EnsureLimiterAlways(hl, host, requests_per_minute, now) ==
    CreateLimiter(hl, host, requests_per_minute, now)

\* the block under self._lock of HostRateLimiter.acquire; it holds no await,
\* so it runs as one step
EnsureLimiter(hl, host, requests_per_minute, now) ==
    IF host \notin DOMAIN hl.limiters
    THEN CreateLimiter(hl, host, requests_per_minute, now)
    ELSE hl

InitHost ==
    /\ input = [op |-> "host_acquire"]
    /\ rate_limiter = FreshHostLimiter
    /\ output = NoOutput
    /\ EmailInit
    /\ StoreInit
    /\ ProcessorInit
    /\ clock = 0
    /\ callers = << >>
    /\ worker = [pc |-> "idle"]
    /\ events = << >>

\* callers queued for the lock of the limiter of host
HostLockWaiters(host) ==
    {i \in 1..Len(callers) : callers[i].host = host /\ callers[i].pc = "lock_wait"}

\* a coroutine that the event loop can run now
HostRunnable(i) ==
    LET host == callers[i].host
    IN  \/ /\ callers[i].pc = "lock_wait"
           /\ rate_limiter.limiters[host].locked_by = None
           /\ \A j \in HostLockWaiters(host) : i <= j
        \/ callers[i].pc = "sleeping" /\ callers[i].wake <= clock

\* one round of limiters[host]._wait_for_tokens by caller i
HostRound(i) ==
    LET host == callers[i].host
        r == WaitRound(rate_limiter.limiters[host], callers[i], i, clock)
    IN  /\ callers' = [callers EXCEPT ![i] = r.caller]
        /\ rate_limiter' = [rate_limiter EXCEPT !.limiters[host] = r.rl]

\* a coroutine calls HostRateLimiter.acquire(host, 1, requests_per_minute):
\* the limiter of the host is looked up or created under the lock, then its
\* acquire is awaited, which runs at once when that limiter's lock is free
HostCallAcquire ==
    /\ Len(callers) < MaxHostCallers
    /\ clock <= MaxStart
    /\ \E host \in HostNames, requests_per_minute \in HostRates :
          LET ensured == EnsureLimiter(rate_limiter, host, requests_per_minute, clock)
              i == Len(callers) + 1
              c == [host |-> host, requests_per_minute |-> requests_per_minute,
                    limiter_id |-> ensured.ids[host],
                    n |-> 1, pc |-> "lock_wait", start |-> clock, wake |-> 0,
                    done_at |-> 0, sleeps |-> 0, deducted |-> 0]
              rl == ensured.limiters[host]
              made == IF ensured.made = rate_limiter.made THEN << >>
                      ELSE <<[op |-> "created", host |-> host, at |-> clock,
                              id |-> ensured.ids[host],
                              requests_per_minute |-> rl.requests_per_minute]>>
          IN  /\ events' = events \o made
              /\ IF rl.locked_by = None /\ HostLockWaiters(host) = {}
                 THEN LET r == WaitRound(rl, c, i, clock)
                      IN  /\ callers' = Append(callers, r.caller)
                          /\ rate_limiter' = [ensured EXCEPT !.limiters[host] = r.rl]
                 ELSE /\ callers' = Append(callers, c)
                      /\ rate_limiter' = ensured
    /\ UNCHANGED <<fnVars, emailVars, storeVars, procVars, clock, worker>>

\* the lock of a host's limiter is released to the caller queued longest
HostLockGranted ==
    /\ \E i \in 1..Len(callers) :
          /\ callers[i].pc = "lock_wait"
          /\ HostRunnable(i)
          /\ HostRound(i)
    /\ UNCHANGED <<fnVars, emailVars, storeVars, procVars, clock, worker, events>>

\* asyncio.sleep(wait_time) returns: the next round of the loop
HostSleepOver ==
    /\ \E i \in 1..Len(callers) :
          /\ callers[i].pc = "sleeping"
          /\ HostRunnable(i)
          /\ HostRound(i)
    /\ UNCHANGED <<fnVars, emailVars, storeVars, procVars, clock, worker, events>>

\* a second passes when the event loop has nothing to run
HostTick ==
    /\ \A i \in 1..Len(callers) : ~HostRunnable(i)
    /\ \/ clock < MaxStart
       \/ \E i \in 1..Len(callers) : callers[i].pc = "sleeping"
    /\ clock' = clock + 1
    /\ UNCHANGED <<fnVars, emailVars, storeVars, procVars, rate_limiter, callers,
                   worker, events>>

NextHost == HostCallAcquire \/ HostLockGranted \/ HostSleepOver \/ HostTick

SpecHost == InitHost /\ [][NextHost]_vars

\* the RateLimiter objects constructed for host
CreatedFor(host) ==
    {k \in 1..Len(events) : events[k].op = "created" /\ events[k].host = host}

\* the callers for host, in the order of their calls
CallersOf(host) == {i \in 1..Len(callers) : callers[i].host = host}

\* the rate the first caller for host asked for
FirstRate(host) ==
    LET first == CHOOSE i \in CallersOf(host) : \A j \in CallersOf(host) : i <= j
    IN  IF Truthy(callers[first].requests_per_minute)
        THEN callers[first].requests_per_minute
        ELSE rate_limiter.default_requests_per_minute

OneLimiterPerHost ==
    input.op = "host_acquire"
    => \A host \in HostNames :
          /\ Cardinality(CreatedFor(host)) <= 1
          /\ host \in DOMAIN rate_limiter.limiters <=> CallersOf(host) # {}
          /\ CallersOf(host) # {}
             => /\ Cardinality(CreatedFor(host)) = 1
                /\ rate_limiter.limiters[host].requests_per_minute = FirstRate(host)
                /\ \A i \in CallersOf(host) :
                      callers[i].limiter_id = rate_limiter.ids[host]

LimiterKept ==
    input.op = "host_acquire"
    => \A host \in DOMAIN rate_limiter.limiters :
          /\ host \in DOMAIN rate_limiter'.limiters
          /\ rate_limiter'.ids[host] = rate_limiter.ids[host]
          /\ rate_limiter'.limiters[host].requests_per_minute
                = rate_limiter.limiters[host].requests_per_minute

\* C27: under any interleaving of concurrent HostRateLimiter.acquire calls at
\* most one RateLimiter is created per hostname and it is never replaced, so
\* the requests_per_minute of a later acquire for a known host does not
\* change that host's rate.
C27_OneLimiterPerHost == []OneLimiterPerHost /\ [][LimiterKept]_vars

\* three calls for one host with three different rates, the later ones
\* having waited on the first one's limiter
C27_Witness ==
    /\ input.op = "host_acquire"
    /\ Len(callers) = 3
    /\ \A i \in 1..3 : /\ callers[i].host = "recreation.gov"
                       /\ callers[i].pc = "done"
    /\ callers[1].requests_per_minute = 1
    /\ callers[2].requests_per_minute = 30
    /\ callers[3].requests_per_minute = None
    /\ callers[2].sleeps > 0
    /\ rate_limiter.limiters["recreation.gov"].requests_per_minute = 1
    /\ Cardinality(CreatedFor("recreation.gov")) = 1

---------------------------------------------------------------------------
(* ReservationParser.parse_html_content: the four strategies               *)

\* cells with a parseable date that the calendar strategy finds in one page
MaxCells == 2

\* What a strategy has extracted for one cell or entry before it constructs
\* the CampsiteAvailability: the site and the check-in date, a day before or
\* a day after date.today()
Candidates ==
    {[site_id |-> s, check_in_date |-> d] :
        s \in {"101", "102"}, d \in {date_today - 1, date_today + 1}}

\* the cells of the calendar grid of a page, in document order
CalendarCells == UNION {[1..n -> Candidates] : n \in 0..MaxCells}

\* the entries another strategy finds in the page: none or one
FoundEntries == {<< >>} \cup {<<c>> : c \in Candidates}

\* CampsiteAvailability.validate_future_date
validate_future_date(v, on_date) == v >= on_date

\* CampsiteAvailability(...) for a candidate that validates
Built(park, c, strategy) ==
    [park |-> park, site_id |-> c.site_id, check_in_date |-> c.check_in_date,
     strategy |-> strategy]

\* the records of the candidates that validate, in order
RECURSIVE BuildValid(_, _, _, _)
BuildValid(park, found, strategy, on_date) ==
    IF found = << >> THEN << >>
    ELSE LET rest == BuildValid(park, Tail(found), strategy, on_date)
         IN  IF validate_future_date(Head(found).check_in_date, on_date)
             THEN <<Built(park, Head(found), strategy)>> \o rest
             ELSE rest

\* _parse_calendar_view: the constructor is called outside any try, so the
\* first cell that does not validate raises out of the strategy
_parse_calendar_view(park, cells, on_date) ==
    IF \E k \in 1..Len(cells) : ~validate_future_date(cells[k].check_in_date, on_date)
    THEN [raised |-> TRUE, value |-> << >>]
    ELSE [raised |-> FALSE, value |-> BuildValid(park, cells, "calendar", on_date)]

\* _parse_search_results: except ValidationError: continue
_parse_search_results(park, found, on_date) ==
    [raised |-> FALSE, value |-> BuildValid(park, found, "search", on_date)]

\* _parse_json_availability_data, as called by _parse_javascript_data and by
\* _parse_ajax_data: except ValidationError: continue
_parse_json_availability_data(park, found, strategy, on_date) ==
    [raised |-> FALSE, value |-> BuildValid(park, found, strategy, on_date)]

\* f"{avail.park}_{avail.site_id}_{avail.check_in_date}"
UniqueKey(avail) == <<avail.park, avail.site_id, avail.check_in_date>>

\* the loop over availability_list: the first record of each key is kept
RECURSIVE unique_availability(_, _)
unique_availability(availability_list, seen) ==
    IF availability_list = << >> THEN << >>
    ELSE LET avail == Head(availability_list)
         IN  IF UniqueKey(avail) \in seen
             THEN unique_availability(Tail(availability_list), seen)
             ELSE <<avail>> \o unique_availability(Tail(availability_list),
                                                   seen \cup {UniqueKey(avail)})

\* parse_html_content: the four strategies run in one try block, each one's
\* records being added when it returns; an exception ends the block
parse_html_content(park, page, on_date) ==
    LET calendar_data == _parse_calendar_view(park, page.calendar, on_date)
        search_results == _parse_search_results(park, page.search, on_date)
        js_data == _parse_json_availability_data(park, page.js, "javascript", on_date)
        ajax_data == _parse_json_availability_data(park, page.ajax, "ajax", on_date)
        availability_list ==
            IF calendar_data.raised THEN << >>
            ELSE calendar_data.value \o search_results.value
                 \o js_data.value \o ajax_data.value
    IN  unique_availability(availability_list, {})

InitParse ==
    /\ output = NoOutput
    /\ EmailInit
    /\ StoreInit
    /\ ProcessorInit
    /\ ScraperInit
    /\ \E calendar \in CalendarCells : \E search, js, ajax \in FoundEntries :
          input = [op |-> "parse_html_content", park |-> "carlsbad",
                   page |-> [calendar |-> calendar, search |-> search,
                             js |-> js, ajax |-> ajax]]

ParseHtmlContent ==
    /\ input.op = "parse_html_content"
    /\ output = NoOutput
    /\ output' = <<parse_html_content(input.park, input.page, date_today)>>
    /\ UNCHANGED <<input, emailVars, storeVars, procVars, scrapeVars>>

NextParse == ParseHtmlContent

SpecParse == InitParse /\ [][NextParse]_vars

\* the keys of the entries of a strategy that validate
ValidKeys(park, found, on_date) ==
    {UniqueKey(Built(park, found[k], "any")) :
        k \in {j \in 1..Len(found) :
                  validate_future_date(found[j].check_in_date, on_date)}}

\* C28: an entry that fails validation inside one strategy is skipped without
\* being fatal; the records of the other strategies for the same page are
\* still in the combined, de-duplicated output.
C28_StrategyIndependence ==
    (input.op = "parse_html_content" /\ output # NoOutput)
    => LET parsed == output[1]
           keys == {UniqueKey(parsed[k]) : k \in 1..Len(parsed)}
       IN  /\ keys = ValidKeys(input.park, input.page.calendar, date_today)
                     \cup ValidKeys(input.park, input.page.search, date_today)
                     \cup ValidKeys(input.park, input.page.js, date_today)
                     \cup ValidKeys(input.park, input.page.ajax, date_today)
           /\ \A j, k \in 1..Len(parsed) :
                 UniqueKey(parsed[j]) = UniqueKey(parsed[k]) => j = k

---------------------------------------------------------------------------
(* The process-alerts command                                              *)

\* timedelta(hours=2): how old a record handed to the processor may be
recent_hours == 2

\* timedelta(days=7): the last check-in date queried, counted from today
alert_window_days == 7

\* plausible slip: the query has no end date
AvailabilityFromStart(wired_to, table, park, start_date, end_date) ==
    LET rows == SelectSeq(RowsOfPark(table, park, 1),
                          LAMBDA row : row.check_in_date >= start_date)
        result == ExecuteQuery(wired_to, rows)
    IN  IF result.raised \/ ~result.success THEN << >> ELSE result.data

\* SupabaseClient.get_availability_by_park(park, start_date, end_date) for a
\* member of ParkEnum: the rows of the park with start_date <= check_in_date
\* <= end_date, in the order of the table (check_in_date, site_id); every
\* exception is answered []
AvailabilityInRange(wired_to, table, park, start_date, end_date) ==
    LET rows == SelectSeq(RowsOfPark(table, park, 1),
                          LAMBDA row : /\ row.check_in_date >= start_date
                                       /\ row.check_in_date <= end_date)
        result == ExecuteQuery(wired_to, rows)
    IN  IF result.raised \/ ~result.success THEN << >> ELSE result.data

\* the loop over get_all_parks() from position p on: for each park the rows
\* of the range whose scraped_at is not before cutoff_time
RECURSIVE RecentAvailability(_, _, _, _, _)
RecentAvailability(wired_to, table, p, day, cutoff_time) ==
    IF p > Len(get_all_parks) THEN << >>
    ELSE SelectSeq(AvailabilityInRange(wired_to, table, get_all_parks[p], day,
                                       day + alert_window_days),
                   LAMBDA avail : avail.scraped_at >= cutoff_time)
         \o RecentAvailability(wired_to, table, p + 1, day, cutoff_time)

\* a stored Carlsbad RV record, available at 60, with check-in ahead days from
\* today
StoredRow(site_id, ahead, scraped_at) ==
    [park |-> "carlsbad", site_id |-> site_id, site_type |-> "rv",
     check_in_date |-> date_today + ahead, status |-> "available",
     price |-> 60, scraped_at |-> scraped_at]

\* the rows the availability table may hold, ordered by check-in date and
\* site: 6, 7 and 8 days ahead scraped within the hour, and one scraped 3
\* hours ago
StoredRows ==
    <<StoredRow("S1", 6, utcnow - 1), StoredRow("S1", 7, utcnow - 1),
      StoredRow("S2", 7, utcnow - 3), StoredRow("S1", 8, utcnow - 1)>>

\* the rows of rows from position i on whose position is in keep
RECURSIVE RowsKept(_, _, _)
RowsKept(rows, i, keep) ==
    IF i > Len(rows) THEN << >>
    ELSE IF i \in keep THEN <<rows[i]>> \o RowsKept(rows, i + 1, keep)
         ELSE RowsKept(rows, i + 1, keep)

\* a rule for Carlsbad and Oceanside, RV and tent, any day of the week, with
\* the given advance notice
NoticeRule(id, days) ==
    [AlertRule2 EXCEPT !.id = id, !.advance_notice_days = days]

NoticeRuleTables ==
    {<<NoticeRule("d7", 7)>>,
     <<NoticeRule("d8", 8), NoticeRule("d1", 1)>>,
     <<AlertRule1, NoticeRule("d8", 8), NoticeRule("d7", 7)>>}

InitProcessAlerts ==
    /\ output = NoOutput
    /\ delivery_stats = [sent |-> 0, failed |-> 0, retries |-> 0]
    /\ n_calls = 0
    /\ utcnow = 10
    /\ mcp_backend \in Backends
    /\ alert_rules \in NoticeRuleTables
    /\ notification_records = << >>
    /\ ProcessorInit
    /\ ScraperInit
    /\ \E keep \in SUBSET (1..Len(StoredRows)) :
          input = [op |-> "process_alerts", table |-> RowsKept(StoredRows, 1, keep)]

\* the process_alerts command up to the rule loop of the processor: the
\* health check, the query of every park for today .. today + 7, the filter
\* on scraped_at, the return when nothing is left, and the start of
\* process_new_availability
ProcessAlerts ==
    /\ input.op = "process_alerts"
    /\ worker.pc = "idle"
    /\ IF ~health_check(mcp_backend)
       THEN /\ worker' = [pc |-> "database_not_available"]
            /\ UNCHANGED <<output, pc, availability, active_rules, rule_idx,
                           stats, call_log>>
       ELSE LET all_availability ==
                   RecentAvailability(mcp_backend, input.table, 1, date_today,
                                      utcnow - recent_hours)
            IN  IF all_availability = << >>
                THEN /\ worker' = [pc |-> "no_recent_data"]
                     /\ UNCHANGED <<output, pc, availability, active_rules,
                                    rule_idx, stats, call_log>>
                ELSE /\ worker' = [pc |-> "processing"]
                     /\ BeginProcessing(all_availability)
    /\ UNCHANGED <<input, emailVars, storeVars, date_today, collaborators,
                   send_log, notification_batch, processed_notifications,
                   rule_log, clock, rate_limiter, callers, events>>

NextProcessAlerts ==
    \/ ProcessAlerts
    \/ ProcessRule
    \/ Flush

SpecProcessAlerts == InitProcessAlerts /\ [][NextProcessAlerts]_vars

\* the rule of the store with the given id
RuleById(id) ==
    alert_rules[CHOOSE k \in 1..Len(alert_rules) : alert_rules[k].id = id]

\* C30: through the process-alerts command no notification is sent for a rule
\* whose advance_notice_days exceeds 7, and a rule with advance_notice_days 7
\* is notified only about check-in dates exactly 7 days ahead.
C30_AlertWindow ==
    input.op = "process_alerts"
    => \A i \in 1..Len(send_log) :
          LET rule == RuleById(send_log[i].rule)
          IN  /\ rule.advance_notice_days <= 7
              /\ \A m \in 1..Len(send_log[i].sites) :
                    LET ahead == send_log[i].sites[m][3] - date_today
                    IN  /\ ahead >= rule.advance_notice_days
                        /\ ahead <= 7
                        /\ rule.advance_notice_days = 7 => ahead = 7

\* the table held recent records 6, 7 and 8 days ahead, a rule with 8 days of
\* notice and a rule with 7 were processed, and the one email delivered
\* lists the record 7 days ahead
C30_Witness ==
    /\ input.op = "process_alerts"
    /\ Len(input.table) = Len(StoredRows)
    /\ Len(alert_rules) = 3
    /\ pc = "idle" /\ output # NoOutput
    /\ Len(rule_log) = 3
    /\ \E i \in 1..Len(send_log) :
          /\ send_log[i].rule = "d7"
          /\ send_log[i].outcome = "ok"
          /\ send_log[i].sites = <<<<"carlsbad", "S1", date_today + 7>>>>
    /\ \A i \in 1..Len(send_log) : send_log[i].rule # "d8"

====
